---- MODULE Spec2Model ----
(***************************************************************************)
(* A model of the attendance tracker's CSV codec (lib/utils/csv-utils.ts),  *)
(* of its activity log service (lib/services/activityLogService.ts), of    *)
(* the course service that writes to the log, of the activity page that    *)
(* reads it, and of the page that takes attendance.                         *)
(* Text is a sequence of one-character strings.                            *)
(***************************************************************************)
EXTENDS Integers, Sequences, FiniteSets, TLC

VARIABLES
    csvPc,        \* "idle" | "ready" | "parsed"
    csvSource,    \* where csvText came from: "none" | "createCSV" | "file"
    csvHeaders,   \* the headers argument of createCSV
    csvRows,      \* the data argument of createCSV
    csvRequired,  \* the requiredHeaders argument of parseCSV
    csvText,      \* the CSV content
    csvResult,    \* what parseCSV returned or threw
    matPc,        \* "idle" | "typed" | "formatted"
    matNo,        \* the argument of formatMatNo
    matResult,    \* what formatMatNo returned
    logs,         \* the rows of the activity_logs table, in insertion order
    nextId,       \* the next value of the table's id sequence
    now,          \* the database clock
    call,         \* the service call that has just ended: its arguments and result
    courses,      \* the courses table: its rows and the next value of its id sequence
    sessions,     \* the attendance_sessions table: its rows and its id sequence
    records,      \* the rows of the attendance_records table
    view,         \* the activity page: isLoading, activities, filteredActivities, filter
    loads         \* the calls of loadRealActivities: how many started, those in flight, those done

csvVars == <<csvPc, csvSource, csvHeaders, csvRows, csvRequired, csvText, csvResult>>
matVars == <<matPc, matNo, matResult>>
logVars == <<logs, nextId, now, call>>
appVars == <<courses, sessions, records, view, loads>>
vars == <<csvVars, matVars, logVars, appVars>>

-----------------------------------------------------------------------------
(* Characters and string helpers (JavaScript String methods)               *)

QUOTE == "\""
COMMA == ","
BACKSLASH == "\\"
NEWLINE == "\n"

\* what String.prototype.trim and the regex class \s call whitespace
Whitespace == {" ", "\t", "\n", "\r"}

IsWhitespace(c) == c \in Whitespace

Includes(seq, x) == \E i \in DOMAIN seq : seq[i] = x

Range(f) == {f[i] : i \in DOMAIN f}

Min(a, b) == IF a < b THEN a ELSE b

\* s.split(sep) for a one-character separator
RECURSIVE Split(_, _)
Split(s, sep) ==
    IF Includes(s, sep)
    THEN LET i == CHOOSE k \in DOMAIN s :
                    s[k] = sep /\ \A m \in 1..(k - 1) : s[m] # sep
         IN  <<SubSeq(s, 1, i - 1)>> \o Split(SubSeq(s, i + 1, Len(s)), sep)
    ELSE <<s>>

\* parts.join(sep); sep is text
RECURSIVE Join(_, _)
Join(parts, sep) ==
    IF parts = <<>> THEN <<>>
    ELSE IF Len(parts) = 1 THEN parts[1]
    ELSE parts[1] \o sep \o Join(Tail(parts), sep)

\* s.trim()
Trim(s) ==
    LET keep == {i \in DOMAIN s : ~IsWhitespace(s[i])}
    IN  IF keep = {} THEN <<>>
        ELSE LET lo == CHOOSE i \in keep : \A k \in keep : i <= k
                 hi == CHOOSE i \in keep : \A k \in keep : k <= i
             IN  SubSeq(s, lo, hi)

\* value.replace(/"/g, '""')
RECURSIVE DoubleQuotes(_)
DoubleQuotes(s) ==
    IF s = <<>> THEN <<>>
    ELSE IF Head(s) = QUOTE THEN <<QUOTE, QUOTE>> \o DoubleQuotes(Tail(s))
    ELSE <<Head(s)>> \o DoubleQuotes(Tail(s))

\* fieldValue.replace(/""/g, '"'): leftmost non-overlapping matches
RECURSIVE CollapseQuotes(_)
CollapseQuotes(s) ==
    IF s = <<>> THEN <<>>
    ELSE IF Len(s) >= 2 /\ s[1] = QUOTE /\ s[2] = QUOTE
         THEN <<QUOTE>> \o CollapseQuotes(SubSeq(s, 3, Len(s)))
    ELSE <<Head(s)>> \o CollapseQuotes(Tail(s))

-----------------------------------------------------------------------------
(* parseCSV                                                                *)

\* row[key] = value on a Record<string, string>
Put(row, key, value) ==
    [k \in (DOMAIN row) \cup {key} |-> IF k = key THEN value ELSE row[k]]

EmptyRow == [k \in {} |-> <<>>]

\* one iteration of the character loop over a data line
ScanChar(line, headers, j, st) ==
    LET char == line[j] IN
    IF char = QUOTE /\ (j = 1 \/ line[j - 1] # BACKSLASH)
    THEN [st EXCEPT !.inQuotes = ~st.inQuotes]
    ELSE IF char = COMMA /\ ~st.inQuotes
    THEN IF st.currentField < Len(headers)
         THEN [st EXCEPT
                 !.row = Put(st.row, headers[st.currentField + 1],
                             CollapseQuotes(st.fieldValue)),
                 !.fieldValue = <<>>,
                 !.currentField = st.currentField + 1]
         ELSE st
    ELSE [st EXCEPT !.fieldValue = Append(st.fieldValue, char)]

RECURSIVE ScanFrom(_, _, _, _)
ScanFrom(line, headers, j, st) ==
    IF j > Len(line) THEN st
    ELSE ScanFrom(line, headers, j + 1, ScanChar(line, headers, j, st))

RECURSIVE PutAll(_, _, _)
PutAll(row, headers, i) ==
    IF i > Len(headers) THEN row
    ELSE PutAll(Put(row, headers[i], <<>>), headers, i + 1)

ParseLinePadded(line, headers) ==
    LET st == ScanFrom(line, headers, 1,
                  [row |-> EmptyRow, fieldValue |-> <<>>,
                   inQuotes |-> FALSE, currentField |-> 0])
    IN  IF st.currentField < Len(headers)
        THEN PutAll(Put(st.row, headers[st.currentField + 1], CollapseQuotes(st.fieldValue)),
                    headers, st.currentField + 2)
        ELSE st.row

\* the body of the loop over lines[i]: the row a non-blank line yields
ParseLine(line, headers) ==
    LET st == ScanFrom(line, headers, 1,
                  [row |-> EmptyRow, fieldValue |-> <<>>,
                   inQuotes |-> FALSE, currentField |-> 0])
    IN  IF st.currentField < Len(headers)
        THEN Put(st.row, headers[st.currentField + 1], CollapseQuotes(st.fieldValue))
        ELSE st.row

RECURSIVE ParseLines(_, _, _)
ParseLines(lines, headers, i) ==
    IF i > Len(lines) THEN <<>>
    ELSE IF Trim(lines[i]) = <<>> THEN ParseLines(lines, headers, i + 1)
    ELSE <<ParseLine(lines[i], headers)>> \o ParseLines(lines, headers, i + 1)

ParseHeaders(line) ==
    LET raw == Split(line, COMMA) IN [i \in DOMAIN raw |-> Trim(raw[i])]

MissingHeadersFirstOnly(requiredHeaders, headers) ==
    LET missing == SelectSeq(requiredHeaders, LAMBDA h : ~Includes(headers, h))
    IN  IF missing = <<>> THEN missing ELSE <<missing[1]>>

MissingHeaders(requiredHeaders, headers) ==
    SelectSeq(requiredHeaders, LAMBDA h : ~Includes(headers, h))

MinLines == 2

TooFewLinesOffByOne(lines) == Len(lines) < MinLines - 1

TooFewLines(lines) == Len(lines) < MinLines

\* the result of parseCSV: the rows it returns, or the Error it throws
parseCSV(csvContent, requiredHeaders) ==
    LET lines == Split(csvContent, NEWLINE) IN
    IF TooFewLines(lines)
    THEN [kind |-> "InsufficientRows"]
    ELSE LET headers == ParseHeaders(lines[1])
             missingHeaders == MissingHeaders(requiredHeaders, headers)
         IN  IF Len(missingHeaders) > 0
             THEN [kind |-> "MissingHeaders", missing |-> missingHeaders]
             ELSE [kind |-> "ok", data |-> ParseLines(lines, headers, 2)]

-----------------------------------------------------------------------------
(* createCSV                                                               *)

\* JavaScript values a row object can hold under a header
Str(s) == [t |-> "string", s |-> s]
Num(n) == [t |-> "number", n |-> n]
Null == [t |-> "null"]

RECURSIVE Decimal(_)
Decimal(n) ==
    LET d == <<"0", "1", "2", "3", "4", "5", "6", "7", "8", "9">> IN
    IF n < 10 THEN <<d[n + 1]>> ELSE Decimal(n \div 10) \o <<d[(n % 10) + 1]>>

\* String(item[header] ?? '')
FieldString(item, header) ==
    IF header \notin DOMAIN item \/ item[header] = Null THEN <<>>
    ELSE IF item[header].t = "number" THEN Decimal(item[header].n)
    ELSE item[header].s

EscapeFieldCommaOnly(value) ==
    IF Includes(value, COMMA)
    THEN <<QUOTE>> \o DoubleQuotes(value) \o <<QUOTE>>
    ELSE value

\* the escaping of one field
EscapeField(value) ==
    IF Includes(value, COMMA) \/ Includes(value, QUOTE)
    THEN <<QUOTE>> \o DoubleQuotes(value) \o <<QUOTE>>
    ELSE value

RowLine(item, headers) ==
    Join([i \in DOMAIN headers |-> EscapeField(FieldString(item, headers[i]))], <<COMMA>>)

RECURSIVE AppendRows(_, _, _)
AppendRows(csvContent, data, headers) ==
    IF data = <<>> THEN csvContent
    ELSE AppendRows(csvContent \o RowLine(Head(data), headers) \o <<NEWLINE>>,
                    Tail(data), headers)

createCSV(data, headers) ==
    AppendRows(Join(headers, <<COMMA>>) \o <<NEWLINE>>, data, headers)

-----------------------------------------------------------------------------
(* formatMatNo                                                             *)

Digits == {"0", "1", "2", "3", "4", "5", "6", "7", "8", "9"}

YearDigits == 4
SerialDigits == 7

\* a regular expression anchored at both ends, as a sequence of items: a
\* character class repeated between lo and hi times
Item(class, lo, hi) == [class |-> class, lo |-> lo, hi |-> hi]

\* how many characters each item takes when items k.. match s from pos to the
\* end, trying the longer repetition first; <<-1>> when there is no match
RECURSIVE MatchItems(_, _, _, _, _)
MatchItems(re, s, pos, k, n) ==
    IF k > Len(re)
    THEN IF pos = Len(s) + 1 THEN <<>> ELSE <<-1>>
    ELSE IF n < re[k].lo THEN <<-1>>
    ELSE LET fits == /\ pos + n - 1 <= Len(s)
                     /\ \A p \in pos..(pos + n - 1) : s[p] \in re[k].class
             rest == IF fits /\ k < Len(re)
                     THEN MatchItems(re, s, pos + n, k + 1, re[k + 1].hi)
                     ELSE IF fits THEN MatchItems(re, s, pos + n, k + 1, 0)
                     ELSE <<-1>>
         IN  IF rest # <<-1>> THEN <<n>> \o rest
             ELSE MatchItems(re, s, pos, k, n - 1)

Match(re, s) == MatchItems(re, s, 1, 1, re[1].hi)

\* /^U\d{4}\/\d{7}$/
CanonicalRe ==
    << Item({"U"}, 1, 1), Item(Digits, YearDigits, YearDigits),
       Item({"/"}, 1, 1), Item(Digits, SerialDigits, SerialDigits) >>

\* the separators of the correcting expression: [\s\/\\-]
SeparatorClassSlashOnly == {"/"}

SeparatorClass == Whitespace \cup {"/", BACKSLASH, "-"}

\* /^U?(\d{4})[\s\/\\-]?(\d{7})$/
CorrectingRe ==
    << Item({"U"}, 0, 1), Item(Digits, YearDigits, YearDigits),
       Item(SeparatorClass, 0, 1), Item(Digits, SerialDigits, SerialDigits) >>

\* matNo.replace(CorrectingRe, 'U$1/$2')
Corrected(s) ==
    LET m == Match(CorrectingRe, s) IN
    IF m = <<-1>> THEN s
    ELSE LET g1 == SubSeq(s, m[1] + 1, m[1] + m[2])
             g2 == SubSeq(s, m[1] + m[2] + m[3] + 1, Len(s))
         IN  <<"U">> \o g1 \o <<"/">> \o g2

formatMatNo(raw) ==
    LET trimmed == Trim(raw) IN
    IF Match(CanonicalRe, trimmed) # <<-1>> THEN trimmed ELSE Corrected(trimmed)

-----------------------------------------------------------------------------
(* The activity log service over the activity_logs table                   *)

\* an optional value: NULL (or undefined), or Some(text)
NULL == <<>>
Some(text) == <<text>>

UpperCase ==
    <<"A", "B", "C", "D", "E", "F", "G", "H", "I", "J", "K", "L", "M",
      "N", "O", "P", "Q", "R", "S", "T", "U", "V", "W", "X", "Y", "Z">>
LowerCase ==
    <<"a", "b", "c", "d", "e", "f", "g", "h", "i", "j", "k", "l", "m",
      "n", "o", "p", "q", "r", "s", "t", "u", "v", "w", "x", "y", "z">>

LowerChar(c) ==
    IF \E i \in DOMAIN UpperCase : UpperCase[i] = c
    THEN LowerCase[CHOOSE i \in DOMAIN UpperCase : UpperCase[i] = c]
    ELSE c

Lower(text) == [i \in DOMAIN text |-> LowerChar(text[i])]

Contains(text, part) ==
    \E i \in 0..(Len(text) - Len(part)) : SubSeq(text, i + 1, i + Len(part)) = part

\* SQL's three truth values
Not3(v) == IF v = "null" THEN "null" ELSE IF v = "true" THEN "false" ELSE "true"
Or3(a, b) ==
    IF a = "true" \/ b = "true" THEN "true"
    ELSE IF a = "null" \/ b = "null" THEN "null" ELSE "false"
Bool3(b) == IF b THEN "true" ELSE "false"

\* text LIKE pattern: % stands for any run of characters, _ for any one
\* character, and a backslash takes the next character literally
RECURSIVE Like(_, _)
Like(text, pattern) ==
    IF pattern = <<>> THEN text = <<>>
    ELSE IF Head(pattern) = "%"
    THEN Like(text, Tail(pattern)) \/ (text # <<>> /\ Like(Tail(text), pattern))
    ELSE IF Head(pattern) = BACKSLASH
    THEN /\ Len(pattern) >= 2
         /\ text # <<>>
         /\ pattern[2] = Head(text)
         /\ Like(Tail(text), Tail(Tail(pattern)))
    ELSE /\ text # <<>>
         /\ Head(pattern) = "_" \/ Head(pattern) = Head(text)
         /\ Like(Tail(text), Tail(pattern))

\* text ILIKE pattern
ILike(text, pattern) == Like(Lower(text), Lower(pattern))

\* column ILIKE pattern on an optional column
ILike3(column, pattern) ==
    IF column = NULL THEN "null" ELSE Bool3(ILike(column[1], pattern))

\* column ILIKE '%part%' on an optional column; part is put into the pattern
\* as it is
ILikeContains(column, part) == ILike3(column, <<"%">> \o part \o <<"%">>)

\* column IN (values) on an optional column
InList(column, values) ==
    IF column = NULL THEN "null" ELSE Bool3(column[1] \in values)

TextSystem == <<"s", "y", "s", "t", "e", "m">>
TextAction == <<"a", "c", "t", "i", "o", "n">>
TextTest == <<"t", "e", "s", "t">>
TextDemo == <<"d", "e", "m", "o">>
TextSample == <<"s", "a", "m", "p", "l", "e">>

TestEntityIds == {<<"t", "e", "s", "t">>, <<"d", "e", "m", "o">>, <<"s", "a", "m", "p", "l", "e">>, <<"0">>, <<"9", "9", "9", "9", "9", "9">>}

\* !activity.entity_type: undefined, null and '' are falsy
Falsy(field) == field = NULL \/ field = Some(<<>>)

WithDefaultsForUndefinedOnly(activity) ==
    [activity EXCEPT
        !.entity_type = IF activity.entity_type = NULL THEN Some(TextSystem) ELSE @,
        !.action_type = IF activity.action_type = NULL THEN Some(TextAction) ELSE @]

\* logActivity, lines 73-79: the defaults for the classification
WithDefaults(activity) ==
    [activity EXCEPT
        !.entity_type = IF Falsy(activity.entity_type) THEN Some(TextSystem) ELSE @,
        !.action_type = IF Falsy(activity.action_type) THEN Some(TextAction) ELSE @]

\* a row numbered by the rows there are
StoredRowReusing(activity, id, time) ==
    [id |-> Len(logs) + 1, created_at |-> time,
     user_id |-> activity.user_id,
     user_email |-> activity.user_email,
     action |-> activity.action,
     action_type |-> activity.action_type[1],
     entity_type |-> activity.entity_type[1],
     entity_id |-> activity.entity_id,
     description |-> activity.description]

\* the row the table stores for an inserted activity: id and created_at are
\* the column defaults
StoredRow(activity, id, time) ==
    [id |-> id, created_at |-> time,
     user_id |-> activity.user_id,
     user_email |-> activity.user_email,
     action |-> activity.action,
     action_type |-> activity.action_type[1],
     entity_type |-> activity.entity_type[1],
     entity_id |-> activity.entity_id,
     description |-> activity.description]

LogActivityRethrows(db) == IF db = "throw" THEN "raised" ELSE "returned"

\* how logActivity ends for its caller when the insert succeeds ("ok"),
\* resolves with an error ("error") or rejects ("throw")
LogActivityEnds(db) == "returned"

\* the WHERE clause getActivityLogs builds, on one row; a condition on a NULL
\* column is neither true nor false and the row is left out; the list handed
\* to .not('entity_id', 'in', ...) is read as the NOT IN it is written for
Matches(row, q) ==
    /\ (q.actionType # NULL => row.action_type = q.actionType[1])
    /\ (q.entityType # NULL => row.entity_type = q.entityType[1])
    /\ (q.fromDate # NULL => row.created_at >= q.fromDate[1])
    /\ (q.toDate # NULL => row.created_at <= q.toDate[1])
    /\ (q.search # NULL =>
            Or3(ILikeContains(Some(row.description), q.search[1]),
                ILikeContains(row.user_email, q.search[1])) = "true")
    /\ (~q.includeTestData =>
            /\ Not3(ILikeContains(Some(row.description), TextTest)) = "true"
            /\ Not3(ILikeContains(Some(row.description), TextDemo)) = "true"
            /\ Not3(ILikeContains(Some(row.description), TextSample)) = "true"
            /\ Not3(ILikeContains(row.user_email, TextTest)) = "true"
            /\ Not3(ILikeContains(Some(row.action_type), TextTest)) = "true"
            /\ Not3(InList(row.entity_id, TestEntityIds)) = "true")

\* the orders ORDER BY created_at DESC allows: rows of equal created_at may
\* come in any order
IsOrdering(ord, rows) ==
    /\ Len(ord) = Len(rows)
    /\ Range(ord) = Range(rows)
    /\ \A i, j \in DOMAIN ord : i < j => ord[i].created_at >= ord[j].created_at

RangeOfExclusive(ord, from, to) == SubSeq(ord, from + 1, Min(to, Len(ord)))

\* .range(from, to): rows from .. to of the ordering, counted from 0
RangeOf(ord, from, to) == SubSeq(ord, from + 1, Min(to + 1, Len(ord)))

\* column = value on an optional column
Eq3(column, value) ==
    IF column = NULL THEN "null" ELSE Bool3(column[1] = value)

\* the WHERE clause filterActivities builds, on one row
FilterMatches(row, filters) ==
    /\ (filters.entityType # NULL => row.entity_type = filters.entityType[1])
    /\ (filters.action # NULL => Eq3(row.action, filters.action[1]) = "true")
    /\ (filters.userId # NULL => Eq3(row.user_id, filters.userId[1]) = "true")
    /\ (filters.startDate # NULL => row.created_at >= filters.startDate[1])
    /\ (filters.endDate # NULL => row.created_at <= filters.endDate[1])

ExpiredAtCutoff(row, cutoff) == row.created_at <= cutoff

\* deleteOldActivityLogs: .lt('created_at', cutoff)
Expired(row, cutoff) == row.created_at < cutoff

CutoffDateToday(today, olderThanDays) == today

\* cutoffDate.setDate(cutoffDate.getDate() - olderThanDays), the clock
\* counting days
CutoffDate(today, olderThanDays) == today - olderThanDays

\* purgeTestData: the patterns of its .or(...)
TestDataPatterns == {<<"%", "t", "e", "s", "t", "%">>, <<"%", "d", "e", "m", "o", "%">>, <<"%", "s", "a", "m", "p", "l", "e", "%">>}

IsTestData(row) ==
    \E pattern \in TestDataPatterns : ILike3(Some(row.description), pattern) = "true"

\* purgeRemainingFakeData: its four deletes in their order, each an .or(...)
\* of conditions on one column
PurgeGroups ==
    << [column |-> "description", op |-> "ilike", values |-> {<<"%", "t", "e", "s", "t", "%">>, <<"%", "d", "e", "m", "o", "%">>, <<"%", "s", "a", "m", "p", "l", "e", "%">>, <<"%", "d", "u", "m", "m", "y", "%">>, <<"%", "m", "o", "c", "k", "%">>, <<"%", "f", "a", "k", "e", "%">>, <<"%", "e", "x", "a", "m", "p", "l", "e", "%">>}],
       [column |-> "user_email", op |-> "ilike", values |-> {<<"%", "@", "e", "x", "a", "m", "p", "l", "e", ".", "c", "o", "m">>, <<"%", "@", "t", "e", "s", "t", ".", "c", "o", "m">>, <<"%", "@", "d", "e", "m", "o", ".", "c", "o", "m">>, <<"%", "@", "s", "a", "m", "p", "l", "e", ".", "c", "o", "m">>, <<"%", "@", "f", "a", "k", "e", ".", "c", "o", "m">>}],
       [column |-> "user_email", op |-> "ilike", values |-> {<<"j", "o", "h", "n", ".", "d", "o", "e", "%">>, <<"j", "a", "n", "e", ".", "d", "o", "e", "%">>, <<"a", "d", "m", "i", "n", "%">>, <<"t", "e", "s", "t", "%">>, <<"d", "e", "m", "o", "%">>, <<"u", "s", "e", "r", "%", "@", "%">>}],
       [column |-> "entity_id", op |-> "eq", values |-> {<<"t", "e", "s", "t">>, <<"d", "e", "m", "o">>, <<"s", "a", "m", "p", "l", "e">>, <<"e", "x", "a", "m", "p", "l", "e">>, <<"0">>, <<"9", "9", "9">>, <<"1", "2", "3", "4">>, <<"1", "2", "3", "4", "5">>, <<"u", "n", "d", "e", "f", "i", "n", "e", "d">>, <<"n", "u", "l", "l">>}] >>

ColumnOf(row, column) ==
    IF column = "description" THEN Some(row.description)
    ELSE IF column = "user_email" THEN row.user_email
    ELSE row.entity_id

\* the row fulfils the condition of one delete
InGroup(row, group) ==
    \E value \in group.values :
        IF group.op = "ilike"
        THEN ILike3(ColumnOf(row, group.column), value) = "true"
        ELSE Eq3(ColumnOf(row, group.column), value) = "true"

\* a purge that blanks the rows it is to delete
AfterDeletesRedacting(rows, n) ==
    [i \in DOMAIN rows |->
        IF \E k \in 1..n : InGroup(rows[i], PurgeGroups[k])
        THEN [rows[i] EXCEPT !.description = <<>>]
        ELSE rows[i]]

\* the table after the first n deletes
RECURSIVE AfterDeletes(_, _)
AfterDeletes(rows, n) ==
    IF n = 0 THEN rows
    ELSE SelectSeq(AfterDeletes(rows, n - 1), LAMBDA row : ~InGroup(row, PurgeGroups[n]))

\* data.length of the n-th delete: the rows it removed
DeletedBy(rows, n) ==
    Len(SelectSeq(AfterDeletes(rows, n - 1), LAMBDA row : InGroup(row, PurgeGroups[n])))

RECURSIVE DeletedCountOfMatches(_, _)
DeletedCountOfMatches(rows, n) ==
    IF n = 0 THEN 0
    ELSE Len(SelectSeq(rows, LAMBDA row : InGroup(row, PurgeGroups[n])))
           + DeletedCountOfMatches(rows, n - 1)

\* deletedCount after the first n deletes
RECURSIVE DeletedCount(_, _)
DeletedCount(rows, n) ==
    IF n = 0 THEN 0 ELSE DeletedCount(rows, n - 1) + DeletedBy(rows, n)

-----------------------------------------------------------------------------
(* The CSV codec at work: a roster is exported with createCSV, or a file   *)
(* is picked for import, and the text is handed to parseCSV.               *)

MaxHeaders == 2
MaxRows == 2
MaxCells == 3
MaxLineLen == 3
MaxDataLines == 2

HeaderNames == {<<"a">>, <<"b">>}

StringPool ==
    { <<>>, <<"x">>, <<" ">>, <<"x", COMMA, "y">>, <<"x", QUOTE, "y">>,
      <<QUOTE>> }

CellPool == {Str(v) : v \in StringPool} \cup {Num(12), Null}

HeaderLists == UNION {[1..n -> HeaderNames] : n \in 0..MaxHeaders}

\* row objects over the keys K; a key may be absent
RowsOver(K) == UNION {[D -> CellPool] : D \in SUBSET K}

RowLists(H) ==
    LET K == Range(H)
        most == IF K = {} THEN MaxRows
                ELSE Min(MaxRows, MaxCells \div Cardinality(K))
    IN  UNION {[1..n -> RowsOver(K)] : n \in 0..most}

LineAlphabet == {"x", COMMA, QUOTE, BACKSLASH, " "}

AllLines == UNION {[1..n -> LineAlphabet] : n \in 0..MaxLineLen}

LongLines ==
    { <<QUOTE, "x", COMMA, "y", QUOTE, COMMA, "z">>,
      <<"x", COMMA, "y", COMMA, "z", COMMA, "w">>,
      <<"x", QUOTE, QUOTE, "y", COMMA, BACKSLASH, QUOTE, COMMA, "z">> }

MoreLines == {<<>>, <<"x", COMMA, "y">>} \cup LongLines

\* a header line and the requiredHeaders it is parsed with
HeaderCases ==
    { [line |-> <<"a">>, required |-> <<>>],
      [line |-> <<"a">>, required |-> << <<"a">> >>],
      [line |-> <<"a">>, required |-> << <<"a">>, <<"b">> >>],
      [line |-> <<"a", COMMA, "b">>, required |-> << <<"b">>, <<"a">> >>],
      [line |-> <<" ", "a", " ", COMMA, "b", " ">>, required |-> << <<"a">>, <<"b">> >>],
      [line |-> <<"a", COMMA, "b">>, required |-> << <<"c">>, <<"a">>, <<"d">> >>],
      [line |-> <<"a", COMMA, "a">>, required |-> << <<"a">> >>],
      [line |-> <<"a", COMMA, "b", COMMA, "c">>, required |-> <<>>],
      [line |-> <<>>, required |-> <<>>] }

\* the data lines of a picked file: none, one, or one followed by more
DataLineLists ==
    {<<>>} \cup {<<l>> : l \in AllLines \cup LongLines}
    \cup UNION {{<<l>> \o m : l \in AllLines, m \in [1..n -> MoreLines]} :
                    n \in 1..(MaxDataLines - 1)}

NoResult == [kind |-> "none"]
NoCall == [kind |-> "none"]

TextAll == <<"a", "l", "l">>

\* the tables of the application empty, the activity page just created, no
\* load of the activity list started
InitApp ==
    /\ courses = [rows |-> <<>>, nextId |-> 1]
    /\ sessions = [rows |-> <<>>, nextId |-> 1]
    /\ records = <<>>
    /\ view = [isLoading |-> TRUE, activities |-> <<>>, filteredActivities |-> <<>>,
               filter |-> [type |-> TextAll, course |-> TextAll]]
    /\ loads = [started |-> 0, flights |-> <<>>, done |-> <<>>]

InitCSV ==
    /\ InitApp
    /\ csvPc = "idle"
    /\ csvSource = "none"
    /\ csvHeaders \in HeaderLists
    /\ csvRows \in RowLists(csvHeaders)
    /\ csvRequired = <<>>
    /\ csvText = <<>>
    /\ csvResult = NoResult
    /\ matPc = "idle"
    /\ matNo = <<>>
    /\ matResult = <<>>
    /\ logs = <<>>
    /\ nextId = 1
    /\ now = 0
    /\ call = NoCall

\* createCSV(data, headers) on the roster at hand
ExportCSV ==
    /\ csvPc = "idle"
    /\ csvPc' = "ready"
    /\ csvSource' = "createCSV"
    /\ csvText' = createCSV(csvRows, csvHeaders)
    /\ csvRequired' = csvHeaders
    /\ UNCHANGED <<csvHeaders, csvRows, csvResult, matVars, logVars, appVars>>

\* a file's text arrives for import
UploadCSV ==
    /\ csvPc = "idle"
    /\ csvHeaders = <<>>
    /\ csvRows = <<>>
    /\ \E hc \in HeaderCases, ls \in DataLineLists :
          /\ csvText' = Join(<<hc.line>> \o ls, <<NEWLINE>>)
          /\ csvRequired' = hc.required
    /\ csvPc' = "ready"
    /\ csvSource' = "file"
    /\ UNCHANGED <<csvHeaders, csvRows, csvResult, matVars, logVars, appVars>>

\* parseCSV(csvContent, requiredHeaders)
ImportCSV ==
    /\ csvPc = "ready"
    /\ csvResult' = parseCSV(csvText, csvRequired)
    /\ csvPc' = "parsed"
    /\ UNCHANGED <<csvSource, csvHeaders, csvRows, csvRequired, csvText, matVars, logVars, appVars>>

NextCSV == ExportCSV \/ UploadCSV \/ ImportCSV

SpecCSV == InitCSV /\ [][NextCSV]_vars

-----------------------------------------------------------------------------
(* The activity log at work: activities are logged, time passes, and the   *)
(* log is queried.                                                         *)

MaxLogs == 2
MaxClock == 1
MaxPage == 2
MaxPageSize == 2

\* activities as callers pass them to logActivity
Activities ==
    { [user_id |-> Some(<<"u">>), action |-> Some(<<"e", "d", "i", "t">>), user_email |-> Some(<<"a", "@", "b", ".", "c">>), action_type |-> Some(<<"e", "d", "i", "t">>), entity_type |-> Some(<<"c", "o", "u", "r", "s", "e">>),
        entity_id |-> Some(<<"7">>), description |-> <<"o", "k">>],
      [user_id |-> NULL, action |-> NULL, user_email |-> NULL, action_type |-> NULL, entity_type |-> NULL,
        entity_id |-> NULL, description |-> <<"o", "k">>],
      [user_id |-> NULL, action |-> NULL, user_email |-> Some(<<"a", "@", "b", ".", "c">>), action_type |-> Some(<<>>), entity_type |-> Some(<<>>),
        entity_id |-> Some(<<"7">>), description |-> <<"o", "k">>],
      [user_id |-> NULL, action |-> NULL, user_email |-> Some(<<"a", "@", "b", ".", "c">>), action_type |-> Some(<<"e", "d", "i", "t">>), entity_type |-> Some(<<"c", "o", "u", "r", "s", "e">>),
        entity_id |-> Some(<<"7">>), description |-> <<"T", "e", "s", "t", " ", "r", "u", "n">>],
      [user_id |-> NULL, action |-> NULL, user_email |-> Some(<<"d", "e", "m", "o", "@", "b", ".", "c">>), action_type |-> Some(<<"e", "d", "i", "t">>), entity_type |-> Some(<<"c", "o", "u", "r", "s", "e">>),
        entity_id |-> Some(<<"7">>), description |-> <<"o", "k">>],
      [user_id |-> NULL, action |-> NULL, user_email |-> Some(<<"a", "@", "b", ".", "c">>), action_type |-> Some(<<"s", "a", "m", "p", "l", "e">>), entity_type |-> Some(<<"c", "o", "u", "r", "s", "e">>),
        entity_id |-> Some(<<"7">>), description |-> <<"o", "k">>],
      [user_id |-> NULL, action |-> NULL, user_email |-> Some(<<"a", "@", "b", ".", "c">>), action_type |-> Some(<<"e", "d", "i", "t">>), entity_type |-> Some(<<"c", "o", "u", "r", "s", "e">>),
        entity_id |-> Some(<<"0">>), description |-> <<"o", "k">>],
      [user_id |-> NULL, action |-> NULL, user_email |-> Some(<<"T", "E", "S", "T", "@", "b", ".", "c">>), action_type |-> Some(<<"e", "d", "i", "t">>), entity_type |-> Some(<<"s", "y", "s", "t", "e", "m">>),
        entity_id |-> Some(<<"7">>), description |-> <<"a", " ", "d", "e", "m", "o">>] }

OptionalOf(S) == {NULL} \cup {Some(x) : x \in S}

Queries ==
    [ page : 1..MaxPage, pageSize : 1..MaxPageSize,
      actionType : OptionalOf({<<"e", "d", "i", "t">>}), entityType : OptionalOf({<<"c", "o", "u", "r", "s", "e">>}),
      fromDate : OptionalOf({1}), toDate : OptionalOf({0}),
      search : OptionalOf({<<"B", ".", "C">>, <<"B", "_", "C">>}), includeTestData : BOOLEAN ]

InitLog ==
    /\ InitApp
    /\ logs = <<>>
    /\ nextId = 1
    /\ now = 0
    /\ call = NoCall
    /\ matPc = "idle"
    /\ matNo = <<>>
    /\ matResult = <<>>
    /\ csvPc = "idle"
    /\ csvSource = "none"
    /\ csvHeaders = <<>>
    /\ csvRows = <<>>
    /\ csvRequired = <<>>
    /\ csvText = <<>>
    /\ csvResult = NoResult

\* logActivity(activity), with the three ways the insert can end; an insert
\* the database turns down may have drawn its value from the id sequence
LogActivityOf(activities) ==
    /\ call = NoCall
    /\ Len(logs) < MaxLogs
    /\ nextId <= MaxLogs
    /\ \E activity \in activities, db \in {"ok", "error", "throw"} :
          LET entry == WithDefaults(activity) IN
          /\ logs' = IF db = "ok"
                     THEN Append(logs, StoredRow(entry, nextId, now))
                     ELSE logs
          /\ nextId' \in IF db = "ok" THEN {nextId + 1}
                         ELSE IF db = "error" THEN {nextId, nextId + 1}
                         ELSE {nextId}
          /\ call' = [kind |-> "logActivity", activity |-> activity, db |-> db,
                      before |-> logs, ends |-> LogActivityEnds(db)]
    /\ UNCHANGED <<now, csvVars, matVars, appVars>>

LogActivity == LogActivityOf(Activities)

\* getActivityLogs(q): the page and the count, or the store's error rethrown
GetActivityLogsOf(queries) ==
    /\ call = NoCall
    /\ \E q \in queries, db \in {"ok", "error"} :
          LET matching == SelectSeq(logs, LAMBDA row : Matches(row, q))
              from == (q.page - 1) * q.pageSize
              to == from + q.pageSize - 1
          IN  \E ord \in [1..Len(matching) -> Range(matching)] :
                 /\ IsOrdering(ord, matching)
                 /\ call' = IF db = "ok"
                            THEN [kind |-> "getActivityLogs", q |-> q, db |-> db, ends |-> "returned",
                                  logs |-> RangeOf(ord, from, to),
                                  count |-> Len(matching)]
                            ELSE [kind |-> "getActivityLogs", db |-> db, ends |-> "raised"]
    /\ UNCHANGED <<logs, nextId, now, csvVars, matVars, appVars>>

GetActivityLogs == GetActivityLogsOf(Queries)

\* the caller takes the result and goes on
Return ==
    /\ call # NoCall
    /\ call' = NoCall
    /\ UNCHANGED <<logs, nextId, now, csvVars, matVars, appVars>>

\* time passes on the database clock
Tick ==
    /\ call = NoCall
    /\ now < MaxClock
    /\ now' = now + 1
    /\ UNCHANGED <<logs, nextId, call, csvVars, matVars, appVars>>

NextLog == LogActivity \/ GetActivityLogs \/ Return \/ Tick

SpecLog == InitLog /\ [][NextLog]_vars

\* the log while it is only written
NextAppend == LogActivity \/ Return \/ Tick

SpecAppend == InitLog /\ [][NextAppend]_vars

-----------------------------------------------------------------------------
(* The activity log as a store: entries are appended, pages of it are      *)
(* read, old entries are pruned and test data is purged.                   *)

MaxDays == 1

\* a few of the activities: a plain one, one with test markers in its
\* description and actor email, and two with placeholder entity identifiers
FewActivities ==
    { [user_id |-> Some(<<"u">>), action |-> Some(<<"e", "d", "i", "t">>), user_email |-> Some(<<"a", "@", "b", ".", "c">>), action_type |-> Some(<<"e", "d", "i", "t">>), entity_type |-> Some(<<"c", "o", "u", "r", "s", "e">>),
        entity_id |-> Some(<<"7">>), description |-> <<"o", "k">>],
      [user_id |-> NULL, action |-> NULL, user_email |-> Some(<<"T", "E", "S", "T", "@", "b", ".", "c">>), action_type |-> Some(<<"e", "d", "i", "t">>), entity_type |-> Some(<<"c", "o", "u", "r", "s", "e">>),
        entity_id |-> Some(<<"7">>), description |-> <<"a", " ", "d", "e", "m", "o">>],
      [user_id |-> NULL, action |-> NULL, user_email |-> Some(<<"a", "@", "b", ".", "c">>), action_type |-> Some(<<"e", "d", "i", "t">>), entity_type |-> Some(<<"c", "o", "u", "r", "s", "e">>),
        entity_id |-> Some(<<"0">>), description |-> <<"o", "k">>],
      [user_id |-> NULL, action |-> NULL, user_email |-> Some(<<"a", "@", "b", ".", "c">>), action_type |-> Some(<<"e", "d", "i", "t">>), entity_type |-> Some(<<"c", "o", "u", "r", "s", "e">>),
        entity_id |-> Some(<<"9", "9", "9", "9", "9", "9">>), description |-> <<"o", "k">>] }

\* getActivityLogs called with the paging and includeTestData only
PageQueries ==
    {q \in Queries :
        /\ q.actionType = NULL
        /\ q.entityType = NULL
        /\ q.fromDate = NULL
        /\ q.toDate = NULL
        /\ q.search = NULL}

\* filters as filterActivities takes them
FilterSets ==
    { [entityType |-> Some(<<"c", "o", "u", "r", "s", "e">>), action |-> Some(<<"e", "d", "i", "t">>), userId |-> Some(<<"u">>), startDate |-> NULL, endDate |-> NULL],
      [entityType |-> NULL, action |-> NULL, userId |-> NULL, startDate |-> Some(0), endDate |-> Some(0)] }

LogFewActivities == LogActivityOf(FewActivities)

GetActivityLogsPaged == GetActivityLogsOf(PageQueries)

\* a read that takes what it returns out of the table
GetRecentActivitiesConsuming ==
    /\ call = NoCall
    /\ logs # <<>>
    /\ logs' = Tail(logs)
    /\ call' = [kind |-> "getRecentActivities", page |-> 1, pageSize |-> 1,
                db |-> "ok", ends |-> "returned", data |-> <<Head(logs)>>,
                count |-> Len(logs)]
    /\ UNCHANGED <<nextId, now, csvVars, matVars, appVars>>

\* getRecentActivities(page, pageSize): the page and the count; when the
\* store reports an error the catch returns an empty page and count 0
GetRecentActivities ==
    /\ call = NoCall
    /\ \E page \in 1..MaxPage, pageSize \in 1..MaxPageSize, db \in {"ok", "error"} :
          LET from == (page - 1) * pageSize
              to == from + pageSize - 1
          IN  \E ord \in [1..Len(logs) -> Range(logs)] :
                 /\ IsOrdering(ord, logs)
                 /\ call' = [kind |-> "getRecentActivities", page |-> page,
                             pageSize |-> pageSize, db |-> db, ends |-> "returned",
                             data |-> IF db = "ok" THEN RangeOf(ord, from, to) ELSE <<>>,
                             count |-> IF db = "ok" THEN Len(logs) ELSE 0]
    /\ UNCHANGED <<logs, nextId, now, csvVars, matVars, appVars>>

\* filterActivities(filters, page, pageSize): as getRecentActivities, over
\* the rows the filters keep
FilterActivities ==
    /\ call = NoCall
    /\ \E filters \in FilterSets, page \in 1..MaxPage, pageSize \in 1..MaxPageSize,
          db \in {"ok", "error"} :
          LET matching == SelectSeq(logs, LAMBDA row : FilterMatches(row, filters))
              from == (page - 1) * pageSize
              to == from + pageSize - 1
          IN  \E ord \in [1..Len(matching) -> Range(matching)] :
                 /\ IsOrdering(ord, matching)
                 /\ call' = [kind |-> "filterActivities", filters |-> filters,
                             page |-> page, pageSize |-> pageSize, db |-> db,
                             ends |-> "returned",
                             data |-> IF db = "ok" THEN RangeOf(ord, from, to) ELSE <<>>,
                             count |-> IF db = "ok" THEN Len(matching) ELSE 0]
    /\ UNCHANGED <<logs, nextId, now, csvVars, matVars, appVars>>

\* deleteOldActivityLogs(olderThanDays): the number of rows deleted, or the
\* store's error rethrown
DeleteOldActivityLogs ==
    /\ call = NoCall
    /\ \E olderThanDays \in 0..MaxDays, db \in {"ok", "error"} :
          LET cutoffDate == CutoffDate(now, olderThanDays)
              data == SelectSeq(logs, LAMBDA row : Expired(row, cutoffDate))
          IN  /\ logs' = IF db = "ok"
                         THEN SelectSeq(logs, LAMBDA row : ~Expired(row, cutoffDate))
                         ELSE logs
              /\ call' = IF db = "ok"
                         THEN [kind |-> "deleteOldActivityLogs", olderThanDays |-> olderThanDays,
                               db |-> db, before |-> logs, ends |-> "returned",
                               count |-> Len(data)]
                         ELSE [kind |-> "deleteOldActivityLogs", olderThanDays |-> olderThanDays,
                               db |-> db, before |-> logs, ends |-> "raised"]
    /\ UNCHANGED <<nextId, now, csvVars, matVars, appVars>>

\* purgeTestData(): one delete by the description
PurgeTestData ==
    /\ call = NoCall
    /\ \E db \in {"ok", "error"} :
          LET data == SelectSeq(logs, IsTestData) IN
          /\ logs' = IF db = "ok"
                     THEN SelectSeq(logs, LAMBDA row : ~IsTestData(row))
                     ELSE logs
          /\ call' = IF db = "ok"
                     THEN [kind |-> "purgeTestData", db |-> db, before |-> logs, ends |-> "returned",
                           count |-> Len(data)]
                     ELSE [kind |-> "purgeTestData", db |-> db, before |-> logs, ends |-> "raised"]
    /\ UNCHANGED <<nextId, now, csvVars, matVars, appVars>>

\* purgeRemainingFakeData(): its deletes one after the other; all of them
\* succeed (failing = 0), or the one numbered failing reports an error, which
\* is thrown after the deletes before it have been done
PurgeRemainingFakeData ==
    /\ call = NoCall
    /\ \E failing \in 0..Len(PurgeGroups) :
          LET done == IF failing = 0 THEN Len(PurgeGroups) ELSE failing - 1 IN
          /\ logs' = AfterDeletes(logs, done)
          /\ call' = IF failing = 0
                     THEN [kind |-> "purgeRemainingFakeData", db |-> "ok", before |-> logs,
                           ends |-> "returned", count |-> DeletedCount(logs, done)]
                     ELSE [kind |-> "purgeRemainingFakeData", db |-> "error", before |-> logs,
                           failing |-> failing, ends |-> "raised"]
    /\ UNCHANGED <<nextId, now, csvVars, matVars, appVars>>

NextStore ==
    \/ LogFewActivities
    \/ GetActivityLogsPaged
    \/ GetRecentActivities
    \/ FilterActivities
    \/ DeleteOldActivityLogs
    \/ PurgeTestData
    \/ PurgeRemainingFakeData
    \/ Return
    \/ Tick

SpecStore == InitLog /\ [][NextStore]_vars

\* the plain activity and the one with test markers
PageActivities == {activity \in FewActivities : activity.entity_id = Some(<<"7">>)}

LogPageActivities == LogActivityOf(PageActivities)

\* the log while it is written and read
NextPages ==
    \/ LogPageActivities
    \/ GetActivityLogsPaged
    \/ GetRecentActivities
    \/ FilterActivities
    \/ Return
    \/ Tick

SpecPages == InitLog /\ [][NextPages]_vars

\* the log while it is written, pruned and purged
NextMaintain ==
    \/ LogFewActivities
    \/ DeleteOldActivityLogs
    \/ PurgeTestData
    \/ PurgeRemainingFakeData
    \/ Return
    \/ Tick

SpecMaintain == InitLog /\ [][NextMaintain]_vars

\* getActivityLogs asked for the first entry only
FirstEntryQueries == {q \in PageQueries : q.page = 1 /\ q.pageSize = 1}

GetFirstActivityLog == GetActivityLogsOf(FirstEntryQueries)

\* the log through its life: written, read, pruned and purged
NextLifecycle ==
    \/ LogPageActivities
    \/ GetFirstActivityLog
    \/ DeleteOldActivityLogs
    \/ PurgeTestData
    \/ PurgeRemainingFakeData
    \/ Return
    \/ Tick

SpecLifecycle == InitLog /\ [][NextLifecycle]_vars

-----------------------------------------------------------------------------
(* Properties of the CSV codec                                             *)

Exported == csvSource = "createCSV"
Parsed == csvPc = "parsed"

\* every row of the exported roster has a string without newline under every header
StringRows ==
    \A i \in DOMAIN csvRows : \A h \in Range(csvHeaders) :
        /\ h \in DOMAIN csvRows[i]
        /\ csvRows[i][h].t = "string"
        /\ ~Includes(csvRows[i][h].s, NEWLINE)

\* C1: parsing what createCSV wrote for rows R and headers H, with H as the
\* required headers, returns exactly R: as many rows, in the same order, each
\* with the original string under every header.
RoundTrip ==
    (Parsed /\ Exported /\ StringRows) =>
        /\ csvResult.kind = "ok"
        /\ Len(csvResult.data) = Len(csvRows)
        /\ \A i \in DOMAIN csvRows :
              /\ DOMAIN csvResult.data[i] = Range(csvHeaders)
              /\ \A h \in Range(csvHeaders) : csvResult.data[i][h] = csvRows[i][h].s

NeedsQuoting(v) == Includes(v, COMMA) \/ Includes(v, QUOTE)

\* C2: a single field value containing a comma or a double quote comes back
\* from createCSV followed by parseCSV as the exact original string.
QuotedFieldRoundTrip ==
    (Parsed /\ Exported /\ StringRows /\ Len(csvHeaders) = 1 /\ Len(csvRows) = 1
        /\ NeedsQuoting(csvRows[1][csvHeaders[1]].s)) =>
        /\ csvResult.kind = "ok"
        /\ Len(csvResult.data) = 1
        /\ csvHeaders[1] \in DOMAIN csvResult.data[1]
        /\ csvResult.data[1][csvHeaders[1]] = csvRows[1][csvHeaders[1]].s

\* the text before the first newline
HeaderRow(text) ==
    IF Includes(text, NEWLINE)
    THEN SubSeq(text, 1, (CHOOSE k \in DOMAIN text :
                    text[k] = NEWLINE /\ \A m \in 1..(k - 1) : text[m] # NEWLINE) - 1)
    ELSE text

TrimmedHeaderNames(text) == {Trim(h) : h \in Range(Split(HeaderRow(text), COMMA))}

AbsentRequired == {h \in Range(csvRequired) : h \notin TrimmedHeaderNames(csvText)}

NamesExactlyTheAbsent ==
    /\ csvResult.kind = "MissingHeaders"
    /\ Range(csvResult.missing) = AbsentRequired
    /\ "data" \notin DOMAIN csvResult

\* C3 as stated: whenever a required header is absent from the trimmed header
\* row, parseCSV fails with the missing-headers error naming exactly the absent
\* required headers, and returns no rows.
HeaderValidation ==
    (Parsed /\ AbsentRequired # {}) => NamesExactlyTheAbsent

\* C3 as amended: the same, for a text of at least two lines (one that contains
\* a newline); a text of one line fails with the insufficient-rows error first.
HeaderValidationOfTwoLines ==
    (Parsed /\ AbsentRequired # {} /\ Includes(csvText, NEWLINE)) => NamesExactlyTheAbsent

HeaderValidationWitness ==
    /\ Parsed
    /\ Includes(csvText, NEWLINE)
    /\ Cardinality(AbsentRequired) = 2
    /\ Range(csvRequired) \ AbsentRequired # {}
    /\ \E l \in Range(Tail(Split(csvText, NEWLINE))) : Trim(l) # <<>>
    /\ csvResult.kind = "MissingHeaders"

IsToggle(line, j) == line[j] = QUOTE /\ (j = 1 \/ line[j - 1] # BACKSLASH)

\* the commas outside quotes
Separators(line) ==
    {j \in DOMAIN line :
        /\ line[j] = COMMA
        /\ Cardinality({k \in 1..(j - 1) : IsToggle(line, k)}) % 2 = 0}

\* the n-th smallest element of a set of numbers
Nth(S, n) == CHOOSE j \in S : Cardinality({k \in S : k < j}) = n - 1

\* the content of the i-th comma-separated field of a line: its characters
\* without the switching quotes, doubled quotes collapsed
FieldText(line, i) ==
    LET seps == Separators(line)
        lo == IF i = 1 THEN 1 ELSE Nth(seps, i - 1) + 1
        hi == IF i > Cardinality(seps) THEN Len(line) ELSE Nth(seps, i) - 1
        at == {p \in lo..hi : ~IsToggle(line, p)}
    IN  CollapseQuotes([n \in 1..Cardinality(at) |-> line[Nth(at, n)]])

RowMatches(row, line, headers) ==
    LET m == Min(Cardinality(Separators(line)) + 1, Len(headers)) IN
    /\ DOMAIN row = {headers[i] : i \in 1..m}
    /\ \A i \in 1..m :
          (\A k \in (i + 1)..m : headers[k] # headers[i]) =>
              row[headers[i]] = FieldText(line, i)

NonBlankDataLines(text) ==
    SelectSeq(Tail(Split(text, NEWLINE)), LAMBDA l : Trim(l) # <<>>)

\* C5: every non-blank data line yields one row, in order; its i-th field is
\* found under the i-th header (the last of several equal header names wins),
\* fields past the last header are dropped, and a header past the last field
\* is an absent key.
FieldAlignment ==
    (Parsed /\ csvResult.kind = "ok") =>
        LET headers == [i \in DOMAIN Split(HeaderRow(csvText), COMMA) |->
                            Trim(Split(HeaderRow(csvText), COMMA)[i])]
            dl == NonBlankDataLines(csvText)
        IN  /\ Len(csvResult.data) = Len(dl)
            /\ \A n \in DOMAIN dl : RowMatches(csvResult.data[n], dl[n], headers)

FieldAlignmentWitness ==
    /\ Parsed
    /\ csvResult.kind = "ok"
    /\ HeaderRow(csvText) = <<"a", COMMA, "b">>
    /\ NonBlankDataLines(csvText) =
          << <<QUOTE, COMMA, QUOTE>>, <<"x", COMMA, "y", COMMA, "z", COMMA, "w">> >>
    /\ DOMAIN csvResult.data[1] = {<<"a">>}
    /\ csvResult.data[1][<<"a">>] = <<COMMA>>
    /\ csvResult.data[2][<<"b">>] = <<"y">>

RECURSIVE DigitsValue(_)
DigitsValue(txt) ==
    IF txt = <<>> THEN 0
    ELSE LET last == txt[Len(txt)]
             d == CHOOSE n \in 0..9 :
                     <<"0", "1", "2", "3", "4", "5", "6", "7", "8", "9">>[n + 1] = last
         IN  10 * DigitsValue(SubSeq(txt, 1, Len(txt) - 1)) + d

\* txt is the string form of the value a row holds (or lacks) under a header
IsStringForm(txt, item, h) ==
    IF h \notin DOMAIN item \/ item[h].t = "null" THEN txt = <<>>
    ELSE IF item[h].t = "string" THEN txt = item[h].s
    ELSE /\ txt # <<>>
         /\ \A k \in DOMAIN txt : txt[k] \in {"0", "1", "2", "3", "4", "5", "6", "7", "8", "9"}
         /\ (Len(txt) > 1 => txt[1] # "0")
         /\ DigitsValue(txt) = item[h].n

\* f is the written form of the field text v
IsWrittenField(f, v) ==
    IF NeedsQuoting(v)
    THEN /\ Len(f) >= 2
         /\ f[1] = QUOTE
         /\ f[Len(f)] = QUOTE
         /\ LET inner == SubSeq(f, 2, Len(f) - 1) IN
               /\ CollapseQuotes(inner) = v
               /\ Len(inner) = Len(v) + Cardinality({k \in DOMAIN v : v[k] = QUOTE})
    ELSE f = v

\* C6: the text createCSV writes is the header line and then one line per row
\* in order, each newline-terminated with nothing after the last; a field is
\* the string form of the row's value, quoted with its quotes doubled exactly
\* when it contains a comma or a double quote.
ExportFormat ==
    (Exported /\ csvPc = "ready") =>
        LET lines == Split(csvText, NEWLINE) IN
        /\ Len(lines) = Len(csvRows) + 2
        /\ lines[Len(lines)] = <<>>
        /\ lines[1] = Join(csvHeaders, <<COMMA>>)
        /\ \A i \in DOMAIN csvRows :
              \E txt \in [DOMAIN csvHeaders -> StringPool \cup {<<"1", "2">>}] :
                 /\ \A k \in DOMAIN csvHeaders : IsStringForm(txt[k], csvRows[i], csvHeaders[k])
                 /\ \E fs \in [DOMAIN csvHeaders ->
                                {EscapeField(v) : v \in StringPool \cup {<<"1", "2">>}}] :
                       /\ \A k \in DOMAIN csvHeaders : IsWrittenField(fs[k], txt[k])
                       /\ lines[i + 1] = Join(fs, <<COMMA>>)

ExportFormatWitness ==
    /\ Exported
    /\ csvPc = "ready"
    /\ Len(csvRows) = 2
    /\ \E h \in Range(csvHeaders) :
          /\ h \in DOMAIN csvRows[1]
          /\ csvRows[1][h].t = "string"
          /\ Includes(csvRows[1][h].s, QUOTE)
          /\ h \notin DOMAIN csvRows[2]

-----------------------------------------------------------------------------
(* formatMatNo at work: a matriculation number is typed and then formatted *)

MaxDigitSlack == 1

DigitRun(n) == [i \in 1..n |-> <<"2", "0", "1", "9", "5", "7", "3">>[((i - 1) % 7) + 1]]

\* a run of digits, or the run with a letter in its second place
Runs(n) ==
    IF n >= 2 THEN {DigitRun(n), [DigitRun(n) EXCEPT ![2] = "x"]} ELSE {DigitRun(n)}

MatPrefixes == {<<>>, <<"U">>, <<"u">>, <<"x">>}
MatSeparators ==
    { <<>>, <<" ">>, <<"/">>, <<BACKSLASH>>, <<"-">>, <<"\t">>, <<".">>, <<"/", "/">> }
MatPadding == {<<>>, <<" ">>, <<"\t", " ">>}
MatTrailers == MatPadding \cup {<<"x">>}

MatInputs ==
    { lead \o prefix \o year \o sep \o serial \o trail :
        lead \in MatPadding, prefix \in MatPrefixes,
        year \in UNION {Runs(n) : n \in (YearDigits - MaxDigitSlack)..(YearDigits + MaxDigitSlack)},
        sep \in MatSeparators,
        serial \in UNION {Runs(n) : n \in (SerialDigits - MaxDigitSlack)..(SerialDigits + MaxDigitSlack)},
        trail \in MatTrailers }
    \cup { <<>>, <<" ">>, <<"U">>, <<"g", "a", "r", "b", "a", "g", "e">> }

InitMat ==
    /\ InitApp
    /\ matPc = "idle"
    /\ matNo = <<>>
    /\ matResult = <<>>
    /\ csvPc = "idle"
    /\ csvSource = "none"
    /\ csvHeaders = <<>>
    /\ csvRows = <<>>
    /\ csvRequired = <<>>
    /\ csvText = <<>>
    /\ csvResult = NoResult
    /\ logs = <<>>
    /\ nextId = 1
    /\ now = 0
    /\ call = NoCall

TypeMatNo ==
    /\ matPc = "idle"
    /\ matNo' \in MatInputs
    /\ matPc' = "typed"
    /\ UNCHANGED <<matResult, csvVars, logVars, appVars>>

FormatMatNo ==
    /\ matPc = "typed"
    /\ matResult' = formatMatNo(matNo)
    /\ matPc' = "formatted"
    /\ UNCHANGED <<matNo, csvVars, logVars, appVars>>

NextMat == TypeMatNo \/ FormatMatNo

SpecMat == InitMat /\ [][NextMat]_vars

-----------------------------------------------------------------------------
(* Properties of formatMatNo                                               *)

AllDigits(t, from, to) == \A p \in from..to : t[p] \in Digits

\* U, four digits, a slash, seven digits
IsCanonical(t) ==
    /\ Len(t) = 1 + YearDigits + 1 + SerialDigits
    /\ t[1] = "U"
    /\ AllDigits(t, 2, 1 + YearDigits)
    /\ t[2 + YearDigits] = "/"
    /\ AllDigits(t, 3 + YearDigits, Len(t))

\* an optional U, four digits, an optional separator out of seps, seven digits
IsLoose(t, seps, u, k) ==
    /\ Len(t) = u + YearDigits + k + SerialDigits
    /\ u = 1 => t[1] = "U"
    /\ AllDigits(t, u + 1, u + YearDigits)
    /\ k = 1 => t[u + YearDigits + 1] \in seps
    /\ AllDigits(t, u + YearDigits + k + 1, Len(t))

FormatsWith(seps) ==
    LET t == Trim(matNo) IN
    IF IsCanonical(t) THEN matResult = t
    ELSE IF \E u \in {0, 1}, k \in {0, 1} : IsLoose(t, seps, u, k)
    THEN \E u \in {0, 1}, k \in {0, 1} :
            /\ IsLoose(t, seps, u, k)
            /\ matResult = <<"U">> \o SubSeq(t, u + 1, u + YearDigits) \o <<"/">>
                              \o SubSeq(t, Len(t) - SerialDigits + 1, Len(t))
    ELSE matResult = t

\* C7 as stated: the trimmed input comes back unchanged when canonical, as
\* U<4 digits>/<7 digits> when it is an optional U, 4 digits, an optional
\* space, slash, backslash or hyphen, and 7 digits, and unchanged otherwise.
MatNoFormatting ==
    matPc = "formatted" => FormatsWith({" ", "/", BACKSLASH, "-"})

\* C7 as amended: the optional separator is any one whitespace character
\* (a tab as well as a space), a slash, a backslash or a hyphen.
MatNoFormattingAnyWhitespace ==
    matPc = "formatted" => FormatsWith(Whitespace \cup {"/", BACKSLASH, "-"})

MatNoFormattingWitness ==
    /\ matPc = "formatted"
    /\ Trim(matNo) # matNo
    /\ IsLoose(Trim(matNo), {"\t"}, 0, 1)
    /\ IsCanonical(matResult)

-----------------------------------------------------------------------------
(* Properties of the activity log service                                  *)

LogActivityEnded == call.kind = "logActivity"

\* C8: when the insert resolves with an error or rejects, logActivity still
\* returns normally to its caller, and the stored log is as it was before.
LogActivityNeverFails ==
    (LogActivityEnded /\ call.db \in {"error", "throw"}) =>
        /\ call.ends = "returned"
        /\ logs = call.before

LogActivityNeverFailsWitness ==
    /\ LogActivityEnded
    /\ call.db = "throw"
    /\ call.ends = "returned"
    /\ logs # <<>>
    /\ logs = call.before

\* C9: every stored entry has a non-empty entity kind and action kind; an
\* activity passed without one (undefined or empty) is stored with "system",
\* respectively "action", one passed with a kind keeps it, and no activity is
\* turned away for lacking them.
ClassificationDefaults ==
    /\ \A i \in DOMAIN logs : logs[i].entity_type # <<>> /\ logs[i].action_type # <<>>
    /\ (LogActivityEnded /\ call.db = "ok") =>
          /\ Len(logs) = Len(call.before) + 1
          /\ LET stored == logs[Len(logs)]
                 passed == call.activity
             IN  /\ stored.entity_type =
                       IF passed.entity_type \in {NULL, Some(<<>>)}
                       THEN <<"s", "y", "s", "t", "e", "m">> ELSE passed.entity_type[1]
                 /\ stored.action_type =
                       IF passed.action_type \in {NULL, Some(<<>>)}
                       THEN <<"a", "c", "t", "i", "o", "n">> ELSE passed.action_type[1]

ClassificationDefaultsWitness ==
    /\ LogActivityEnded
    /\ call.db = "ok"
    /\ call.activity.entity_type = Some(<<>>)
    /\ call.activity.action_type = Some(<<>>)
    /\ Len(logs) = 2
    /\ logs[1].entity_type = <<"s", "y", "s", "t", "e", "m">>
    /\ logs[2].action_type = <<"a", "c", "t", "i", "o", "n">>

QueryReturned == call.kind = "getActivityLogs" /\ call.ends = "returned"

HasMarker(text) == \E m \in {TextTest, TextDemo, TextSample} : Contains(Lower(text), m)

LooksLikeTestData(row) ==
    \/ HasMarker(row.description)
    \/ row.user_email # NULL /\ HasMarker(row.user_email[1])
    \/ HasMarker(row.action_type)
    \/ row.entity_id # NULL /\ row.entity_id[1] \in TestEntityIds

NoFilter(q) ==
    /\ q.actionType = NULL
    /\ q.entityType = NULL
    /\ q.fromDate = NULL
    /\ q.toDate = NULL
    /\ q.search = NULL

\* C10: with includeTestData false a query returns no entry whose description,
\* actor email or action kind contains "test", "demo" or "sample" in any case,
\* and none whose entity identifier is a placeholder value; with
\* includeTestData true such entries are returned like any other.
TestDataExclusion ==
    QueryReturned =>
        /\ ~call.q.includeTestData =>
              \A i \in DOMAIN call.logs : ~LooksLikeTestData(call.logs[i])
        /\ (call.q.includeTestData /\ NoFilter(call.q)) =>
              /\ call.count = Len(logs)
              /\ (call.q.page = 1 /\ call.q.pageSize >= Len(logs)) =>
                    Range(call.logs) = Range(logs)

\* C11: a query with includeTestData false and no other filter returns, across
\* its pages, every stored entry that has no test marker in its description,
\* actor email or action kind and whose entity identifier is no placeholder
\* value; an entry without actor email or without entity identifier is such
\* an entry.
DefaultFilterCompleteness ==
    (QueryReturned /\ ~call.q.includeTestData /\ NoFilter(call.q)
        /\ call.q.page = 1 /\ call.q.pageSize >= Len(logs)) =>
        \A i \in DOMAIN logs :
            ~LooksLikeTestData(logs[i]) => logs[i] \in Range(call.logs)

Occurs(part, text) == Contains(Lower(text), Lower(part))

\* the entry satisfies every filter the query supplies
Satisfies(row, q) ==
    /\ (q.actionType # NULL => row.action_type = q.actionType[1])
    /\ (q.entityType # NULL => row.entity_type = q.entityType[1])
    /\ (q.fromDate # NULL => row.created_at >= q.fromDate[1])
    /\ (q.toDate # NULL => row.created_at <= q.toDate[1])
    /\ (q.search # NULL =>
            \/ Occurs(q.search[1], row.description)
            \/ row.user_email # NULL /\ Occurs(q.search[1], row.user_email[1]))

\* C12: the entries a query matches are exactly the stored entries that
\* satisfy every supplied filter at once: action kind equal, entity kind
\* equal, creation time within the inclusive bounds, and the search text
\* occurring, in any case, in the description or the actor email; an omitted
\* filter restricts nothing.  (Stated for includeTestData true, where no
\* other condition applies.)
ConjunctiveFilters ==
    (QueryReturned /\ call.q.includeTestData) =>
        LET satisfying == {i \in DOMAIN logs : Satisfies(logs[i], call.q)} IN
        /\ call.count = Cardinality(satisfying)
        /\ (call.q.page = 1 /\ call.q.pageSize >= Len(logs)) =>
              Range(call.logs) = {logs[i] : i \in satisfying}

\* C13: every query result is sorted by creation time descending, and entries
\* of equal creation time by descending identifier, so that the stored
\* entries determine the order of the result.
ResultOrdering ==
    QueryReturned =>
        \A i, j \in DOMAIN call.logs :
            i < j =>
                \/ call.logs[i].created_at > call.logs[j].created_at
                \/ /\ call.logs[i].created_at = call.logs[j].created_at
                   /\ call.logs[i].id > call.logs[j].id

\* a paged query to which the store answered
PageReturned ==
    \/ QueryReturned
    \/ call.kind \in {"getRecentActivities", "filterActivities"} /\ call.db = "ok"

PageResult == IF call.kind = "getActivityLogs" THEN call.logs ELSE call.data
PageNumber == IF call.kind = "getActivityLogs" THEN call.q.page ELSE call.page
PageLength == IF call.kind = "getActivityLogs" THEN call.q.pageSize ELSE call.pageSize

\* the stored entries the query's conditions keep
PageMatching ==
    IF call.kind = "getActivityLogs"
    THEN SelectSeq(logs, LAMBDA row : Matches(row, call.q))
    ELSE IF call.kind = "filterActivities"
    THEN SelectSeq(logs, LAMBDA row : FilterMatches(row, call.filters))
    ELSE logs

\* C14: for page p >= 1 and pageSize s >= 1 a query returns the entries at
\* positions (p-1)*s .. p*s-1, counted from 0, of the matching entries in
\* creation-time order, fewer if the list ends earlier, and a count equal to
\* the number of matching entries whatever p and s are.
Pagination ==
    PageReturned =>
        LET skipped == (PageNumber - 1) * PageLength
            left == Len(PageMatching) - skipped
            expected == IF left <= 0 THEN 0 ELSE IF left < PageLength THEN left ELSE PageLength
        IN  /\ call.count = Len(PageMatching)
            /\ Len(PageResult) = expected
            /\ \E ord \in [1..Len(PageMatching) -> Range(PageMatching)] :
                  /\ IsOrdering(ord, PageMatching)
                  /\ \A k \in 1..expected : PageResult[k] = ord[skipped + k]

PaginationWitness ==
    /\ call.kind = "getRecentActivities"
    /\ call.db = "ok"
    /\ call.page = 2
    /\ call.pageSize = 1
    /\ call.count = 2
    /\ Len(call.data) = 1
    /\ call.data[1] = logs[1]
    /\ logs[1].created_at < logs[2].created_at

QueryKinds == {"getActivityLogs", "getRecentActivities", "filterActivities"}

\* C15: getActivityLogs, getRecentActivities and filterActivities leave the
\* stored log as it is, whatever their arguments and whether the store
\* answers or fails.
QueriesArePureReads ==
    [][(call = NoCall /\ call'.kind \in QueryKinds) => logs' = logs]_vars

QueriesArePureReadsWitness ==
    /\ call.kind = "getActivityLogs"
    /\ call.ends = "raised"
    /\ Len(logs) = 2

PruneReturned == call.kind = "deleteOldActivityLogs" /\ call.ends = "returned"

\* C16: a successful deleteOldActivityLogs(d) removes exactly the entries
\* created strictly before now minus d days, keeps every entry created at or
\* after that cutoff, and returns the number of entries it removed.
RetentionPruning ==
    PruneReturned =>
        LET cutoff == now - call.olderThanDays IN
        /\ logs = SelectSeq(call.before, LAMBDA row : row.created_at >= cutoff)
        /\ call.count =
              Cardinality({i \in DOMAIN call.before : call.before[i].created_at < cutoff})
        /\ call.count = Len(call.before) - Len(logs)

RetentionPruningWitness ==
    /\ PruneReturned
    /\ Len(call.before) = 2
    /\ call.before[1].created_at < now - call.olderThanDays
    /\ call.before[2].created_at = now - call.olderThanDays
    /\ logs = <<call.before[2]>>
    /\ call.count = 1

NoneOlderThan(rows, cutoff) == \A i \in DOMAIN rows : rows[i].created_at >= cutoff

\* C17: a successful deleteOldActivityLogs(d) leaves no entry older than its
\* cutoff, and one that runs when no entry is older than its cutoff (as when
\* it runs again and none has become older since) removes nothing, returns 0
\* and leaves the log unchanged.
PruneIdempotence ==
    [][(call = NoCall /\ call'.kind = "deleteOldActivityLogs" /\ call'.ends = "returned") =>
          LET cutoff == now - call'.olderThanDays IN
          /\ NoneOlderThan(logs', cutoff)
          /\ NoneOlderThan(logs, cutoff) => (logs' = logs /\ call'.count = 0)]_vars

\* a run after which one of two logged entries is left, created at the
\* cutoff, and which removed nothing
PruneIdempotenceWitness ==
    /\ PruneReturned
    /\ nextId = 3
    /\ Len(logs) = 1
    /\ logs[1].created_at = now - call.olderThanDays
    /\ call.before = logs
    /\ call.count = 0

PurgeReturned == call.kind = "purgeRemainingFakeData" /\ call.ends = "returned"

StartsWith(text, part) == Len(text) >= Len(part) /\ SubSeq(text, 1, Len(part)) = part
EndsWith(text, part) ==
    Len(text) >= Len(part) /\ SubSeq(text, Len(text) - Len(part) + 1, Len(text)) = part

FakeWords == {<<"t", "e", "s", "t">>, <<"d", "e", "m", "o">>, <<"s", "a", "m", "p", "l", "e">>, <<"d", "u", "m", "m", "y">>, <<"m", "o", "c", "k">>, <<"f", "a", "k", "e">>, <<"e", "x", "a", "m", "p", "l", "e">>}
FakeDomains == {<<"@", "e", "x", "a", "m", "p", "l", "e", ".", "c", "o", "m">>, <<"@", "t", "e", "s", "t", ".", "c", "o", "m">>, <<"@", "d", "e", "m", "o", ".", "c", "o", "m">>, <<"@", "s", "a", "m", "p", "l", "e", ".", "c", "o", "m">>, <<"@", "f", "a", "k", "e", ".", "c", "o", "m">>}
FakeNames == {<<"j", "o", "h", "n", ".", "d", "o", "e">>, <<"j", "a", "n", "e", ".", "d", "o", "e">>, <<"a", "d", "m", "i", "n">>, <<"t", "e", "s", "t">>, <<"d", "e", "m", "o">>}
FakeEntityIds == {<<"t", "e", "s", "t">>, <<"d", "e", "m", "o">>, <<"s", "a", "m", "p", "l", "e">>, <<"e", "x", "a", "m", "p", "l", "e">>, <<"0">>, <<"9", "9", "9">>, <<"1", "2", "3", "4">>, <<"1", "2", "3", "4", "5">>, <<"u", "n", "d", "e", "f", "i", "n", "e", "d">>, <<"n", "u", "l", "l">>}

\* the entry matches the expanded denylist: a fake word in the description, an
\* actor email at a fake domain or beginning with a fake name (or with "user"
\* and an @ after it), or a placeholder entity identifier
Denylisted(row) ==
    \/ \E word \in FakeWords : Occurs(word, row.description)
    \/ /\ row.user_email # NULL
       /\ LET email == Lower(row.user_email[1]) IN
          \/ \E domain \in FakeDomains : EndsWith(email, domain)
          \/ \E name \in FakeNames : StartsWith(email, name)
          \/ StartsWith(email, <<"u", "s", "e", "r">>) /\ Contains(SubSeq(email, 5, Len(email)), <<"@">>)
    \/ row.entity_id # NULL /\ row.entity_id[1] \in FakeEntityIds

\* C18: a successful purgeRemainingFakeData removes every entry whose
\* description, actor email or entity identifier matches the expanded
\* denylist and no other entry, and returns the number of entries removed
\* from the log, an entry that matches several pattern groups counting once.
PurgeByPattern ==
    PurgeReturned =>
        /\ logs = SelectSeq(call.before, LAMBDA row : ~Denylisted(row))
        /\ call.count = Len(call.before) - Len(logs)

PurgeByPatternWitness ==
    /\ PurgeReturned
    /\ Len(call.before) = 2
    /\ \E word \in FakeWords : Occurs(word, call.before[1].description)
    /\ \E name \in FakeNames : StartsWith(Lower(call.before[1].user_email[1]), name)
    /\ ~Denylisted(call.before[2])
    /\ logs = <<call.before[2]>>
    /\ call.count = 1

\* getActivityLogs() called with its defaults but for the paging
DefaultQuery(page, pageSize) ==
    [page |-> page, pageSize |-> pageSize, actionType |-> NULL, entityType |-> NULL,
     fromDate |-> NULL, toDate |-> NULL, search |-> NULL, includeTestData |-> FALSE]

\* the entry is one a query with includeTestData false leaves out
Hidden(row) == ~Matches(row, DefaultQuery(1, 1))

\* C19: every entry that getActivityLogs hides when includeTestData is false
\* is one that purgeRemainingFakeData deletes, so that after a successful
\* purge a query finds the same entries with includeTestData false as with
\* includeTestData true.
PurgeCoversQueryDenylist ==
    PurgeReturned =>
        /\ \A i \in DOMAIN call.before :
              Hidden(call.before[i]) => call.before[i] \notin Range(logs)
        /\ \A i \in DOMAIN logs : ~Hidden(logs[i])

StoreOperations ==
    {"getActivityLogs", "getRecentActivities", "filterActivities",
     "deleteOldActivityLogs", "purgeTestData", "purgeRemainingFakeData"}

\* C20: every query, purge and prune operation passes a failure of the store
\* on to its caller as an error; none returns a normal result, such as an
\* empty page with count 0 or a removed-count, when the store has failed.
FailurePropagation ==
    (call.kind \in StoreOperations /\ call.db = "error") => call.ends = "raised"

DeleteKinds == {"deleteOldActivityLogs", "purgeTestData", "purgeRemainingFakeData"}

\* C21: through every append, query, purge and prune an entry that is still
\* in the log has the field values it was stored with; an entry leaves the
\* log only by a purge or a prune, and none is updated in place.
EntryImmutability ==
    [][/\ \A i \in DOMAIN logs' :
            \/ logs'[i] \in Range(logs)
            \/ /\ call'.kind = "logActivity"
               /\ i = Len(logs')
               /\ \A j \in DOMAIN logs : logs[j].id # logs'[i].id
       /\ (\E j \in DOMAIN logs : logs[j] \notin Range(logs')) =>
             call'.kind \in DeleteKinds]_vars

\* of two entries one was purged, and the other is as it was before
EntryImmutabilityWitness ==
    /\ PurgeReturned
    /\ Len(call.before) = 2
    /\ call.count = 1
    /\ logs = <<call.before[1]>>
    /\ logs[1].id = 1

\* C22: whatever appends, purges and prunes there are, a successfully
\* appended entry gets an identifier greater than every identifier given out
\* before it; the identifiers in the log are distinct, and one that a purge
\* or prune has freed is not given out again.
IdentifierMonotonicity ==
    /\ [](\A i \in DOMAIN logs :
             /\ logs[i].id < nextId
             /\ \A j \in DOMAIN logs : i < j => logs[i].id < logs[j].id)
    /\ [][/\ nextId' >= nextId
           /\ (call'.kind = "logActivity" /\ call'.db = "ok") =>
                 /\ Len(logs') = Len(logs) + 1
                 /\ logs'[Len(logs')].id >= nextId]_vars

\* an entry appended to the empty log after the identifier 1 has been given
\* out gets the identifier 2
IdentifierMonotonicityWitness ==
    /\ LogActivityEnded
    /\ call.db = "ok"
    /\ call.before = <<>>
    /\ Len(logs) = 1
    /\ logs[1].id = 2
    /\ logs[1].created_at = 0

\* C26: when purgeRemainingFakeData reports an error to its caller, the call
\* has removed no entry from the activity log.
PurgeAllOrNothing ==
    (call.kind = "purgeRemainingFakeData" /\ call.ends = "raised") =>
        logs = call.before

(***************************************************************************)
(* The course service (lib/services/courseService.ts): each mutation of    *)
(* the courses table is followed by a call of logActivity.                 *)
(***************************************************************************)

MaxCourses == 1

\* ActivityTypes and EntityTypes, as far as the course service and the
\* attendance page use them
COURSE_CREATED == <<"c", "o", "u", "r", "s", "e", "_", "c", "r", "e", "a", "t", "e", "d">>
COURSE_UPDATED == <<"c", "o", "u", "r", "s", "e", "_", "u", "p", "d", "a", "t", "e", "d">>
COURSE_DELETED == <<"c", "o", "u", "r", "s", "e", "_", "d", "e", "l", "e", "t", "e", "d">>
ATTENDANCE_TAKEN == <<"a", "t", "t", "e", "n", "d", "a", "n", "c", "e", "_", "t", "a", "k", "e", "n">>
TextCourse == <<"c", "o", "u", "r", "s", "e">>
TextAttendance == <<"a", "t", "t", "e", "n", "d", "a", "n", "c", "e">>

CourseNames == {<<"m">>, <<"n">>}

\* the columns of a course that the service reads back
CourseData == [code : {<<"A">>}, name : CourseNames]

DecimalDigit(d) == <<"0", "1", "2", "3", "4", "5", "6", "7", "8", "9">>[d + 1]

\* Number.prototype.toString, on a natural number
RECURSIVE NumberToString(_)
NumberToString(n) ==
    IF n < 10 THEN <<DecimalDigit(n)>>
    ELSE NumberToString(n \div 10) \o <<DecimalDigit(n % 10)>>

\* `Course ${code} - ${name} was ${done}`
CourseDescription(code, name, done) ==
    <<"C", "o", "u", "r", "s", "e", " ">> \o code \o <<" ", "-", " ">> \o name \o <<" ", "w", "a", "s", " ">> \o done

\* the activity the course service hands to logActivity
CourseActivity(actionType, course, courseId, done) ==
    [user_id |-> NULL, action |-> NULL, user_email |-> NULL,
     action_type |-> Some(actionType), entity_type |-> Some(TextCourse),
     entity_id |-> Some(NumberToString(courseId)),
     description |-> CourseDescription(course.code, course.name, done)]

\* logActivity awaited by another handler: the row is stored when the insert
\* succeeds, and the handler goes on whichever way the insert ends
LogActivityAwaited(activity, db) ==
    /\ logs' = IF db = "ok"
               THEN Append(logs, StoredRow(WithDefaults(activity), nextId, now))
               ELSE logs
    /\ nextId' \in IF db = "ok" THEN {nextId + 1}
                   ELSE IF db = "error" THEN {nextId, nextId + 1}
                   ELSE {nextId}

\* the rows of a table with a given id
WithId(rows, id) == SelectSeq(rows, LAMBDA row : row.id = id)
WithoutId(rows, id) == SelectSeq(rows, LAMBDA row : row.id # id)

\* the store's error not looked at
ErrorIgnored(store) == FALSE

\* if (error) throw error: the handler stops at the store's error
ErrorThrown(store) == store = "error"

\* a handler that gives up when the entry could not be stored
EndsAfterLogStored(db) == IF db = "ok" THEN "returned" ELSE "raised"

\* how a handler of the course service ends once its mutation is applied and
\* logActivity has been awaited: logActivity has returned, the handler returns
EndsAfterLog(db) == "returned"

\* createCourse(courseData)
CreateCourse ==
    /\ call = NoCall
    /\ Len(logs) < MaxLogs
    /\ nextId <= MaxLogs
    /\ courses.nextId <= MaxCourses
    /\ \E courseData \in CourseData, store \in {"ok", "error"},
          db \in {"ok", "error", "throw"} :
          LET row == [id |-> courses.nextId, code |-> courseData.code,
                      name |-> courseData.name]
          IN  IF ErrorThrown(store)
              THEN /\ call' = [kind |-> "createCourse", store |-> store, log |-> "none",
                               id |-> 0, ends |-> "raised", before |-> logs,
                               courses |-> courses.rows]
                   /\ UNCHANGED <<courses, logs, nextId>>
              ELSE /\ courses' = [rows |-> Append(courses.rows, row),
                                  nextId |-> courses.nextId + 1]
                   /\ LogActivityAwaited(
                          CourseActivity(COURSE_CREATED, courseData, row.id,
                                         <<"c", "r", "e", "a", "t", "e", "d">>), db)
                   /\ call' = [kind |-> "createCourse", store |-> store, log |-> db,
                               id |-> row.id, ends |-> EndsAfterLog(db), before |-> logs,
                               courses |-> courses.rows, result |-> row]
    /\ UNCHANGED <<now, sessions, records, view, loads, csvVars, matVars>>

\* updateCourse(courseId, courseData); data![0] of an update that matched
\* no row is undefined, and reading its code throws
UpdateCourse ==
    /\ call = NoCall
    /\ Len(logs) < MaxLogs
    /\ nextId <= MaxLogs
    /\ \E courseId \in 1..MaxCourses, name \in CourseNames,
          store \in {"ok", "error"}, db \in {"ok", "error", "throw"} :
          LET data == [i \in DOMAIN WithId(courses.rows, courseId) |->
                          [WithId(courses.rows, courseId)[i] EXCEPT !.name = name]]
              updated == [i \in DOMAIN courses.rows |->
                             IF courses.rows[i].id = courseId
                             THEN [courses.rows[i] EXCEPT !.name = name]
                             ELSE courses.rows[i]]
          IN  IF ErrorThrown(store) \/ data = <<>>
              THEN /\ call' = [kind |-> "updateCourse", store |-> store, log |-> "none",
                               id |-> courseId, ends |-> "raised", before |-> logs,
                               courses |-> courses.rows]
                   /\ UNCHANGED <<courses, logs, nextId>>
              ELSE /\ courses' = [courses EXCEPT !.rows = updated]
                   /\ LogActivityAwaited(
                          CourseActivity(COURSE_UPDATED, data[1], courseId,
                                         <<"u", "p", "d", "a", "t", "e", "d">>), db)
                   /\ call' = [kind |-> "updateCourse", store |-> store, log |-> db,
                               id |-> courseId, ends |-> EndsAfterLog(db), before |-> logs,
                               courses |-> courses.rows, result |-> data[1]]
    /\ UNCHANGED <<now, sessions, records, view, loads, csvVars, matVars>>

\* deleteCourse(courseId): the course is read for the log's description, the
\* error of that read is not looked at; the sessions of the course and their
\* records go with it (ON DELETE CASCADE)
DeleteCourse ==
    /\ call = NoCall
    /\ Len(logs) < MaxLogs
    /\ nextId <= MaxLogs
    /\ \E courseId \in 1..MaxCourses, lookup \in {"ok", "error"},
          store \in {"ok", "error"}, db \in {"ok", "error", "throw"} :
          LET found == WithId(courses.rows, courseId)
              courseData == IF lookup = "ok" /\ Len(found) = 1 THEN Some(found[1]) ELSE NULL
              kept == SelectSeq(sessions.rows, LAMBDA session : session.course_id # courseId)
          IN  IF ErrorThrown(store)
              THEN /\ call' = [kind |-> "deleteCourse", store |-> store, log |-> "none",
                               id |-> courseId, ends |-> "raised", before |-> logs,
                               courses |-> courses.rows, lookup |-> lookup]
                   /\ UNCHANGED <<courses, sessions, records, logs, nextId>>
              ELSE /\ courses' = [courses EXCEPT !.rows = WithoutId(courses.rows, courseId)]
                   /\ sessions' = [sessions EXCEPT !.rows = kept]
                   /\ records' = SelectSeq(records, LAMBDA record :
                                     \E i \in DOMAIN kept : kept[i].id = record.session_id)
                   /\ IF courseData # NULL
                      THEN LogActivityAwaited(
                               CourseActivity(COURSE_DELETED, courseData[1], courseId,
                                              <<"d", "e", "l", "e", "t", "e", "d">>), db)
                      ELSE UNCHANGED <<logs, nextId>>
                   /\ call' = [kind |-> "deleteCourse", store |-> store,
                               log |-> IF courseData # NULL THEN db ELSE "none",
                               id |-> courseId,
                               ends |-> IF courseData # NULL THEN EndsAfterLog(db)
                                        ELSE "returned",
                               before |-> logs,
                               courses |-> courses.rows, lookup |-> lookup]
    /\ UNCHANGED <<now, view, loads, csvVars, matVars>>

(***************************************************************************)
(* The page that takes attendance (routes/attendance/take/[courseId]).     *)
(***************************************************************************)

MaxStudents == 1
MaxSessions == 1

\* the student list of the page: students 1..n, each marked present or not
StudentLists ==
    UNION { [1..n -> [id : {0}, present : BOOLEAN]] : n \in 0..MaxStudents }

\* the list with the ids the students have
Students(list) == [i \in DOMAIN list |-> [list[i] EXCEPT !.id = i]]

\* students.filter((s) => s.present).length
PresentCount(students) == Len(SelectSeq(students, LAMBDA s : s.present))

\* ((presentCount / totalCount) * 100).toFixed(1)
PercentToFixed1(presentCount, totalCount) ==
    IF totalCount = 0 THEN <<"N", "a", "N">>
    ELSE LET tenths == (presentCount * 2000 + totalCount) \div (2 * totalCount)
         IN  NumberToString(tenths \div 10) \o <<".">> \o NumberToString(tenths % 10)

\* the activity submitAttendance hands to logActivity
AttendanceActivity(course, presentCount, totalCount) ==
    [user_id |-> NULL, action |-> NULL,
     user_email |-> Some(<<"c", "u", "r", "r", "e", "n", "t", "_", "u", "s", "e", "r", "@", "e", "x", "a", "m", "p", "l", "e", ".", "c", "o", "m">>),
     action_type |-> Some(ATTENDANCE_TAKEN), entity_type |-> Some(TextAttendance),
     entity_id |-> Some(NumberToString(course.id)),
     description |-> <<"A", "t", "t", "e", "n", "d", "a", "n", "c", "e", " ", "t", "a", "k", "e", "n", " ", "f", "o", "r", " ">> \o course.name
                     \o <<" ", "w", "i", "t", "h", " ">> \o NumberToString(presentCount)
                     \o <<" ", "p", "r", "e", "s", "e", "n", "t", " ", "(">>
                     \o PercentToFixed1(presentCount, totalCount) \o <<"%", ")">>]

\* students.map(...): one record for each student of the list
AttendanceRecords(sessionId, students) ==
    [i \in DOMAIN students |->
        [session_id |-> sessionId, student_id |-> students[i].id,
         status |-> IF students[i].present THEN "present" ELSE "absent"]]

\* submitAttendance() on a page that has loaded a course: the session is
\* inserted, then the records, then the activity is logged; the session's
\* course_id refers to courses, so the insert of a session for a course that
\* has been deleted meanwhile fails
SubmitAttendanceOf(lists) ==
    /\ call = NoCall
    /\ Len(logs) < MaxLogs
    /\ nextId <= MaxLogs
    /\ sessions.nextId <= MaxSessions
    /\ \E courseId \in 1..(courses.nextId - 1), list \in lists,
          sessionStore \in {"ok", "error"}, recordsStore \in {"ok", "error"},
          db \in {"ok", "error", "throw"} :
          LET students == Students(list)
              presentCount == PresentCount(students)
              totalCount == Len(students)
              found == WithId(courses.rows, courseId)
              session == [id |-> sessions.nextId, course_id |-> courseId,
                          total_students |-> totalCount,
                          present_students |-> presentCount]
              inserted == [rows |-> Append(sessions.rows, session),
                           nextId |-> sessions.nextId + 1]
          IN  IF sessionStore = "error" \/ found = <<>>
              THEN /\ call' = [kind |-> "submitAttendance", store |-> "error",
                               log |-> "none", id |-> courseId, ends |-> "returned",
                               before |-> logs, saveSuccess |-> FALSE,
                               saveError |-> TRUE, isSaving |-> FALSE]
                   /\ UNCHANGED <<sessions, records, logs, nextId>>
              ELSE IF recordsStore = "error"
              THEN /\ sessions' = inserted
                   /\ call' = [kind |-> "submitAttendance", store |-> "error",
                               log |-> "none", id |-> courseId, ends |-> "returned",
                               before |-> logs, saveSuccess |-> FALSE,
                               saveError |-> TRUE, isSaving |-> FALSE]
                   /\ UNCHANGED <<records, logs, nextId>>
              ELSE /\ sessions' = inserted
                   /\ records' = records \o AttendanceRecords(session.id, students)
                   /\ LogActivityAwaited(
                          AttendanceActivity(found[1], presentCount, totalCount), db)
                   /\ call' = [kind |-> "submitAttendance", store |-> "ok",
                               log |-> db, id |-> courseId, ends |-> "returned",
                               before |-> logs, saveSuccess |-> TRUE,
                               saveError |-> FALSE, isSaving |-> FALSE,
                               session |-> session]
    /\ UNCHANGED <<now, courses, view, loads, csvVars, matVars>>

SubmitAttendance == SubmitAttendanceOf(StudentLists)

\* the list of one student, who is present
OneStudentLists == {list \in StudentLists : Len(list) = 1 /\ list[1].present}

SubmitAttendanceOfOne == SubmitAttendanceOf(OneStudentLists)

\* the course service alone
NextCourses ==
    \/ CreateCourse
    \/ UpdateCourse
    \/ DeleteCourse
    \/ Return

SpecCourses == InitLog /\ [][NextCourses]_vars

\* courses are created and deleted, and attendance is taken for them
NextAttendance ==
    \/ CreateCourse
    \/ DeleteCourse
    \/ SubmitAttendance
    \/ Return

SpecAttendance == InitLog /\ [][NextAttendance]_vars

\* the handlers that write to the activity log after a mutation of their own
NextAudit ==
    \/ CreateCourse
    \/ UpdateCourse
    \/ DeleteCourse
    \/ SubmitAttendanceOfOne
    \/ Return

SpecAudit == InitLog /\ [][NextAudit]_vars

AuditedKinds == {"createCourse", "updateCourse", "deleteCourse", "submitAttendance"}

\* the primary mutation of the call that has just ended is in the tables
MutationApplied ==
    CASE call.kind = "createCourse" ->
            /\ call.result \in Range(courses.rows)
            /\ call.result \notin Range(call.courses)
      [] call.kind = "updateCourse" ->
            /\ call.result \in Range(courses.rows)
            /\ Len(WithId(courses.rows, call.id)) = 1
      [] call.kind = "deleteCourse" ->
            WithId(courses.rows, call.id) = <<>>
      [] call.kind = "submitAttendance" ->
            /\ call.session \in Range(sessions.rows)
            /\ \E i \in DOMAIN records : records[i].session_id = call.session.id

\* C23: when createCourse, updateCourse, deleteCourse or submitAttendance has
\* applied its primary mutation and the logging step after it fails, the
\* operation still reports success to its caller and the mutation stays
\* applied.
AuditFailureNeverBlocks ==
    (call.kind \in AuditedKinds /\ call.log \in {"error", "throw"}) =>
        /\ call.ends = "returned"
        /\ (call.kind = "submitAttendance" => call.saveSuccess /\ ~call.saveError)
        /\ MutationApplied

\* a course has been created, the insert of its log entry was turned down,
\* and createCourse has returned the course
AuditFailureNeverBlocksWitness ==
    /\ call.kind = "createCourse"
    /\ call.log = "error"
    /\ call.ends = "returned"
    /\ call.result \in Range(courses.rows)
    /\ logs = call.before

CourseKinds == {"createCourse", "updateCourse", "deleteCourse"}

\* the activity type the course service logs for each of its mutations
CourseActionType(kind) ==
    CASE kind = "createCourse" -> COURSE_CREATED
      [] kind = "updateCourse" -> COURSE_UPDATED
      [] kind = "deleteCourse" -> COURSE_DELETED

\* the call that has just ended has added one entry to the log, of its kind
\* and with the id of its course
OneEntryAppended ==
    /\ Len(logs) = Len(call.before) + 1
    /\ SubSeq(logs, 1, Len(call.before)) = call.before
    /\ logs[Len(logs)].action_type = CourseActionType(call.kind)
    /\ logs[Len(logs)].entity_id = Some(NumberToString(call.id))

\* C24: while log persistence is available, every createCourse, updateCourse
\* or deleteCourse call that has changed the courses table has appended, by
\* the time it returns, exactly one entry of kind course_created,
\* course_updated or course_deleted, with that course's id as entity id.
CourseActionsRecorded ==
    (/\ call.kind \in CourseKinds
     /\ courses.rows # call.courses
     /\ call.log \notin {"error", "throw"}) =>
        OneEntryAppended

\* C27: a course_created, course_updated or course_deleted entry is appended
\* only after the store has reported success for the insert, update or
\* delete; when that mutation fails, the call raises and the activity log is
\* as it was.
NoAuditForFailedMutation ==
    /\ (call.kind \in CourseKinds /\ call.store = "error") =>
          /\ call.ends = "raised"
          /\ logs = call.before
          /\ courses.rows = call.courses
    /\ (call.kind \in CourseKinds /\ logs # call.before) =>
          /\ call.store = "ok"
          /\ OneEntryAppended

\* the update of a stored course was turned down by the store: updateCourse
\* has raised, and the log holds the entry of the creation and no other
NoAuditForFailedMutationWitness ==
    /\ call.kind = "updateCourse"
    /\ call.store = "error"
    /\ call.ends = "raised"
    /\ Len(courses.rows) = 1
    /\ courses.rows[1].id = call.id
    /\ Len(logs) = 1
    /\ logs[1].action_type = COURSE_CREATED

\* the attendance records attached to a session
RecordsOf(session) ==
    SelectSeq(records, LAMBDA record : record.session_id = session.id)

\* C30: after any submitAttendance call has finished, with success or with
\* failure, every stored attendance session has exactly total_students
\* attendance records attached to it, of which exactly present_students have
\* the status 'present'.
SessionConsistency ==
    \A i \in DOMAIN sessions.rows :
        /\ Len(RecordsOf(sessions.rows[i])) = sessions.rows[i].total_students
        /\ Len(SelectSeq(RecordsOf(sessions.rows[i]),
                         LAMBDA record : record.status = "present"))
              = sessions.rows[i].present_students

(***************************************************************************)
(* The activity page (routes/students/new): loadRealActivities is started  *)
(* on mount, by the 30-second timer and by the refresh button, and a load  *)
(* may be started while an earlier one is waiting for the store.           *)
(***************************************************************************)

MaxLoads == 2
MaxShown == 1

\* .limit(50)
ActivityLimit == 50

TextNoDetails == <<"N", "o", " ", "d", "e", "t", "a", "i", "l", "s", " ", "a", "v", "a", "i", "l", "a", "b", "l", "e">>
TextUserSystem == <<"S", "y", "s", "t", "e", "m">>
TextActionDefault == <<"A", "c", "t", "i", "o", "n">>

\* the types the filter offers, as far as the entries here have them
FilterTypes == {TextAll, TextCourse}

\* an entry of the course service and one of the attendance page
ViewActivities ==
    { CourseActivity(COURSE_CREATED, [code |-> <<"A">>, name |-> <<"m">>], 1,
                     <<"c", "r", "e", "a", "t", "e", "d">>),
      AttendanceActivity([id |-> 1, name |-> <<"m">>], 1, 1) }

\* logActivity while the page is open, as long as the log is short
LogViewActivities ==
    /\ Len(logs) < MaxShown
    /\ LogActivityOf(ViewActivities)

\* the Activity made of one row; time, the age of the entry on the client's
\* clock when it is shown, is left to the display
ActivityOf(record) ==
    [id |-> record.id,
     type |-> IF record.entity_type = <<>> THEN TextSystem ELSE record.entity_type,
     course |-> record.entity_id,
     action |-> IF record.action_type = <<>> THEN TextActionDefault ELSE record.action_type,
     details |-> IF record.description = <<>> THEN TextNoDetails ELSE record.description,
     user |-> IF Falsy(record.user_email) THEN TextUserSystem ELSE record.user_email[1],
     date |-> record.created_at]

\* the rows shown twice over
TransformedTwice(data) ==
    [i \in DOMAIN data |-> ActivityOf(data[i])] \o [i \in DOMAIN data |-> ActivityOf(data[i])]

\* data.map(record => ...)
Transformed(data) == [i \in DOMAIN data |-> ActivityOf(data[i])]

\* applyFilters(): the activities of the chosen type and course
ApplyFilters(activities, filter) ==
    LET byType == IF filter.type # TextAll
                  THEN SelectSeq(activities, LAMBDA activity : activity.type = filter.type)
                  ELSE activities
    IN  IF filter.course # TextAll
        THEN SelectSeq(byType, LAMBDA activity : activity.course = Some(filter.course))
        ELSE byType

\* the end of loadRealActivities: with the rows of the answer both lists are
\* set from them, after a failure both are emptied; the effect applies the
\* filters to the new activities, and the loading flag is taken down
LoadEnds(i, ok, data) ==
    LET flight == loads.flights[i]
        shown == IF ok /\ Len(data) > 0 THEN Transformed(data) ELSE <<>>
    IN  /\ view' = [view EXCEPT !.activities = shown,
                                !.filteredActivities = ApplyFilters(shown, view.filter),
                                !.isLoading = FALSE]
        /\ loads' = [loads EXCEPT
                        !.flights = SubSeq(@, 1, i - 1) \o SubSeq(@, i + 1, Len(@)),
                        !.done = Append(@, [n |-> flight.n, ok |-> ok, data |-> data,
                                            overlapped |-> flight.overlapped])]

\* loadRealActivities() is called: the loading flag goes up and the table
\* check is sent
StartLoad ==
    /\ call = NoCall
    /\ loads.started < MaxLoads
    /\ view' = [view EXCEPT !.isLoading = TRUE]
    /\ loads' = [loads EXCEPT
                    !.started = @ + 1,
                    !.flights = Append([j \in DOMAIN @ |-> [@[j] EXCEPT !.overlapped = TRUE]],
                                       [n |-> loads.started + 1, pc |-> "check",
                                        ok |-> TRUE, data |-> <<>>,
                                        overlapped |-> loads.flights # <<>>])]
    /\ UNCHANGED <<courses, sessions, records, csvVars, matVars, logVars>>

\* the answer to the table check arrives: the select is sent, or the load
\* ends in its catch
TableChecked ==
    /\ call = NoCall
    /\ \E i \in DOMAIN loads.flights, db \in {"ok", "error"} :
          /\ loads.flights[i].pc = "check"
          /\ IF db = "ok"
             THEN /\ loads' = [loads EXCEPT !.flights[i].pc = "select"]
                  /\ UNCHANGED view
             ELSE LoadEnds(i, FALSE, <<>>)
    /\ UNCHANGED <<courses, sessions, records, csvVars, matVars, logVars>>

\* the store runs the select: the newest rows first, at most fifty
Selected ==
    /\ call = NoCall
    /\ \E i \in DOMAIN loads.flights, db \in {"ok", "error"} :
          /\ loads.flights[i].pc = "select"
          /\ \E ord \in [1..Len(logs) -> Range(logs)] :
                /\ IsOrdering(ord, logs)
                /\ loads' = [loads EXCEPT
                                !.flights[i] =
                                    [@ EXCEPT !.pc = "answered",
                                              !.ok = db = "ok",
                                              !.data = IF db = "ok"
                                                       THEN SubSeq(ord, 1, Min(ActivityLimit, Len(ord)))
                                                       ELSE <<>>]]
    /\ UNCHANGED <<view, courses, sessions, records, csvVars, matVars, logVars>>

\* the answer to the select arrives and the load ends
LoadCompleted ==
    /\ call = NoCall
    /\ \E i \in DOMAIN loads.flights :
          /\ loads.flights[i].pc = "answered"
          /\ LoadEnds(i, loads.flights[i].ok, loads.flights[i].data)
    /\ UNCHANGED <<courses, sessions, records, csvVars, matVars, logVars>>

\* the type filter is set (bind:value, filterByType) and the filters applied
ChooseType ==
    /\ call = NoCall
    /\ \E type \in FilterTypes :
          /\ type # view.filter.type
          /\ view' = [view EXCEPT
                         !.filter = [@ EXCEPT !.type = type],
                         !.filteredActivities =
                             ApplyFilters(view.activities, [view.filter EXCEPT !.type = type])]
    /\ UNCHANGED <<loads, courses, sessions, records, csvVars, matVars, logVars>>

\* the activity page while the log is written
NextView ==
    \/ LogViewActivities
    \/ Return
    \/ StartLoad
    \/ TableChecked
    \/ Selected
    \/ LoadCompleted
    \/ ChooseType

SpecView == InitLog /\ [][NextView]_vars

\* a list of the page shows the rows of an answer, each once, in its order
ShowsRows(list, data) ==
    /\ Len(list) = Len(data)
    /\ \A i \in DOMAIN data :
          /\ list[i].id = data[i].id
          /\ list[i].date = data[i].created_at
          /\ list[i].course = data[i].entity_id
          /\ list[i].details = data[i].description

\* the rows of an answer that the chosen type lets through
OfChosenType(data) ==
    SelectSeq(data, LAMBDA row : view.filter.type = TextAll
                                    \/ row.entity_type = view.filter.type)

\* loads that were in flight at once have all completed
OverlappingLoadsDone ==
    /\ loads.flights = <<>>
    /\ \E k \in DOMAIN loads.done : loads.done[k].overlapped

\* C25 as stated: after two loads that were in flight at once have both
\* completed, activities and filteredActivities both equal the complete
\* result of a single one of those queries, and the loading flag is false.
OverlappingLoadsShowOneResult ==
    OverlappingLoadsDone =>
        /\ \E k \in DOMAIN loads.done :
              /\ ShowsRows(view.activities, loads.done[k].data)
              /\ ShowsRows(view.filteredActivities, loads.done[k].data)
        /\ ~view.isLoading

\* C25, amended: after two loads that were in flight at once have both
\* completed, activities equals the complete result of a single one of them
\* (the empty list for a load that failed), filteredActivities equals the
\* rows of that same result that the chosen filter lets through, and the
\* loading flag is false.
OverlappingLoadsShowOneResultFiltered ==
    OverlappingLoadsDone =>
        /\ \E k \in DOMAIN loads.done :
              /\ ShowsRows(view.activities, loads.done[k].data)
              /\ ShowsRows(view.filteredActivities, OfChosenType(loads.done[k].data))
        /\ ~view.isLoading

\* two loads that were in flight at once got different answers and have both
\* completed; the entry shown is not of the type the filter is set to
OverlappingLoadsWitness ==
    /\ loads.flights = <<>>
    /\ Len(loads.done) = 2
    /\ loads.done[1].overlapped /\ loads.done[2].overlapped
    /\ loads.done[1].ok /\ loads.done[2].ok
    /\ loads.done[1].data # loads.done[2].data
    /\ Len(view.activities) = 1
    /\ view.activities[1].type = TextAttendance
    /\ view.filter.type = TextCourse
    /\ view.filteredActivities = <<>>
    /\ ~view.isLoading

\* C29: when several loads of the activity list overlap, the list displayed
\* after all of them have completed is the result of the load that was
\* started last.
LatestLoadWins ==
    OverlappingLoadsDone =>
        \E k \in DOMAIN loads.done :
            /\ loads.done[k].n = loads.started
            /\ ShowsRows(view.activities, loads.done[k].data)

(***************************************************************************)
(* The pages of one query read one after another: each page is a call of   *)
(* getActivityLogs of its own, and the store orders the rows anew for it.  *)
(***************************************************************************)

\* the queries without filter, from their first page
FirstPageQueries == {q \in PageQueries : q.page = 1}

\* ceil(count / pageSize)
PagesNeeded(count, pageSize) == (count + pageSize - 1) \div pageSize

\* getActivityLogs for page number k of q, on an ordering the store has chosen
PageOf(q, k, ord) ==
    RangeOf(ord, (k - 1) * q.pageSize, (k - 1) * q.pageSize + q.pageSize - 1)

\* getActivityLogs({..., page: 1}): the first page and the count
FetchFirstPage ==
    /\ call = NoCall
    /\ \E q \in FirstPageQueries, db \in {"ok", "error"} :
          LET matching == SelectSeq(logs, LAMBDA row : Matches(row, q))
          IN  \E ord \in [1..Len(matching) -> Range(matching)] :
                 /\ IsOrdering(ord, matching)
                 /\ call' = IF db = "ok"
                            THEN [kind |-> "pages", q |-> q, db |-> db, ends |-> "returned",
                                  pages |-> <<PageOf(q, 1, ord)>>,
                                  count |-> Len(matching)]
                            ELSE [kind |-> "pages", db |-> db, ends |-> "raised"]
    /\ UNCHANGED <<logs, nextId, now, csvVars, matVars, appVars>>

\* getActivityLogs for the page after the ones read, nothing else in between
FetchNextPage ==
    /\ call.kind = "pages"
    /\ call.ends = "returned"
    /\ Len(call.pages) < PagesNeeded(call.count, call.q.pageSize)
    /\ \E db \in {"ok", "error"} :
          LET matching == SelectSeq(logs, LAMBDA row : Matches(row, call.q))
          IN  \E ord \in [1..Len(matching) -> Range(matching)] :
                 /\ IsOrdering(ord, matching)
                 /\ call' = IF db = "ok"
                            THEN [call EXCEPT
                                     !.pages = Append(@, PageOf(call.q, Len(call.pages) + 1, ord)),
                                     !.count = Len(matching)]
                            ELSE [kind |-> "pages", db |-> db, ends |-> "raised"]
    /\ UNCHANGED <<logs, nextId, now, csvVars, matVars, appVars>>

\* the log while it is written and read page after page
NextSweep ==
    \/ LogPageActivities
    \/ FetchFirstPage
    \/ FetchNextPage
    \/ Return
    \/ Tick

SpecSweep == InitLog /\ [][NextSweep]_vars

RECURSIVE Concatenated(_)
Concatenated(seqs) ==
    IF seqs = <<>> THEN <<>> ELSE Head(seqs) \o Concatenated(Tail(seqs))

\* the pages 1 .. ceil(N / pageSize) of a query have all been read
AllPagesRead ==
    /\ call.kind = "pages"
    /\ call.ends = "returned"
    /\ Len(call.pages) >= PagesNeeded(call.count, call.q.pageSize)

\* C28: when the pages 1, 2, ..., ceil(N / pageSize) of one filtered query
\* are fetched one after another with no append, purge or prune in between,
\* every matching entry appears on exactly one page, also when several
\* entries have the same creation time.
PagesPartitionResult ==
    AllPagesRead =>
        LET all == Concatenated(call.pages) IN
        \A i \in DOMAIN logs :
            Matches(logs[i], call.q) =>
                Cardinality({j \in DOMAIN all : all[j] = logs[i]}) = 1

====
